---- MODULE Spec2Model ----
(***************************************************************************)
(* A model of the HTTP/1.1 server of webserver/: the growable buffer       *)
(* (DynBuf), the promise-based socket wrapper (TCPConn), the head framer   *)
(* (cutMessage / parseHTTPReq), the body readers, the chunked codec, the   *)
(* response encoder and the per-connection loop (serveClient / newConn).   *)
(*                                                                         *)
(* Bytes are one-character strings; a Buffer is a sequence of bytes.  A JS *)
(* async function is a process whose position is `pc`; one action is the   *)
(* code that runs between two awaits.                                      *)
(***************************************************************************)
EXTENDS Integers, Sequences, FiniteSets, TLC

(***************************************************************************)
(* Bytes and strings                                                       *)
(***************************************************************************)
CR == "\r"
LF == "\n"
CRLF == <<CR, LF>>
CRLFCRLF == <<CR, LF, CR, LF>>
\* the byte Buffer.alloc() fills new storage with
NUL == "NUL"

Min(a, b) == IF a < b THEN a ELSE b
Max(a, b) == IF a > b THEN a ELSE b

\* Number.NaN, for the results of parseInt(): NaN > 0, NaN >= 0 and NaN === 0
\* are all false, as they are for this value
NaN == 0 - 2

\* Buffer.subarray(from, to) / String.slice(from, to), 0-based, end exclusive
Slice(s, from, to) == SubSeq(s, from + 1, to)

\* Buffer.indexOf(pat, from): the 0-based offset of the first occurrence of
\* pat at or after offset from, or -1
IndexOf(s, pat, from) ==
    LET hits == {i \in from..(Len(s) - Len(pat)) :
                    \A j \in 1..Len(pat) : s[i + j] = pat[j]}
    IN  IF hits = {} THEN 0 - 1
        ELSE CHOOSE i \in hits : \A k \in hits : i <= k

StartsWith(s, p) == Len(s) >= Len(p) /\ SubSeq(s, 1, Len(p)) = p

Digits == {"0", "1", "2", "3", "4", "5", "6", "7", "8", "9"}
HexLower == {"a", "b", "c", "d", "e", "f"}
HexUpper == {"A", "B", "C", "D", "E", "F"}

DigitVal(c) ==
    CASE c = "0" -> 0 [] c = "1" -> 1 [] c = "2" -> 2 [] c = "3" -> 3
      [] c = "4" -> 4 [] c = "5" -> 5 [] c = "6" -> 6 [] c = "7" -> 7
      [] c = "8" -> 8 [] c = "9" -> 9
      [] c \in {"a", "A"} -> 10 [] c \in {"b", "B"} -> 11
      [] c \in {"c", "C"} -> 12 [] c \in {"d", "D"} -> 13
      [] c \in {"e", "E"} -> 14 [] c \in {"f", "F"} -> 15

DigitChar(d) == <<"0", "1", "2", "3", "4", "5", "6", "7", "8", "9",
                  "a", "b", "c", "d", "e", "f">>[d + 1]

\* parseInt(s, radix) for a string s of digits of that radix: NaN when s is
\* empty
RECURSIVE DigitsVal(_, _)
DigitsVal(s, radix) ==
    IF Len(s) = 0 THEN 0
    ELSE DigitsVal(SubSeq(s, 1, Len(s) - 1), radix) * radix + DigitVal(s[Len(s)])

parseInt(s, radix) == IF Len(s) = 0 THEN NaN ELSE DigitsVal(s, radix)

\* Number.prototype.toString(radix) for n >= 0
RECURSIVE NumToString(_, _)
NumToString(n, radix) ==
    IF n < radix THEN <<DigitChar(n)>>
    ELSE NumToString(n \div radix, radix) \o <<DigitChar(n % radix)>>

\* String.prototype.toLowerCase() on one character
LowerChar(c) ==
    CASE c = "A" -> "a" [] c = "B" -> "b" [] c = "C" -> "c" [] c = "D" -> "d"
      [] c = "E" -> "e" [] c = "F" -> "f" [] c = "G" -> "g" [] c = "H" -> "h"
      [] c = "I" -> "i" [] c = "J" -> "j" [] c = "K" -> "k" [] c = "L" -> "l"
      [] c = "M" -> "m" [] c = "N" -> "n" [] c = "O" -> "o" [] c = "P" -> "p"
      [] c = "Q" -> "q" [] c = "R" -> "r" [] c = "S" -> "s" [] c = "T" -> "t"
      [] c = "U" -> "u" [] c = "V" -> "v" [] c = "W" -> "w" [] c = "X" -> "x"
      [] c = "Y" -> "y" [] c = "Z" -> "z" [] OTHER -> c

toLowerCase(s) == [i \in 1..Len(s) |-> LowerChar(s[i])]

\* the white space String.prototype.trim() removes, among the bytes used here
WhiteSpace == {" ", "\t", CR, LF}

trim(s) ==
    LET keep == {i \in 1..Len(s) : s[i] \notin WhiteSpace}
    IN  IF keep = {} THEN <<>>
        ELSE SubSeq(s, CHOOSE i \in keep : \A k \in keep : i <= k,
                       CHOOSE i \in keep : \A k \in keep : i >= k)

\* Buffer.concat(list)
RECURSIVE Concat(_)
Concat(list) ==
    IF Len(list) = 0 THEN <<>> ELSE Head(list) \o Concat(Tail(list))

(***************************************************************************)
(* DynBuf: src/unnamed/part_000 (utils/dynamic-buffer)                     *)
(***************************************************************************)
\* { data: Buffer.alloc(0), length: 0 }
EmptyBuf == [data |-> <<>>, length |-> 0]

Zeros(n) == [i \in 1..n |-> NUL]

RECURSIVE GrowCap(_, _)
GrowCap(cap, newLen) == IF cap < newLen THEN GrowCap(cap * 2, newLen) ELSE cap

\* a faulty bufPush: the capacity grows from 1, not from 32
bufPushSmall(buf, data) ==
    LET newLen == buf.length + Len(data)
        old == Len(buf.data)
        cap == IF old < newLen THEN GrowCap(Max(old, 1), newLen) ELSE old
        grown == IF old < newLen THEN buf.data \o Zeros(cap - old) ELSE buf.data
    IN  [data |-> SubSeq(grown, 1, buf.length) \o data
                    \o SubSeq(grown, newLen + 1, cap),
         length |-> newLen]

bufPush(buf, data) ==
    LET newLen == buf.length + Len(data)
        old == Len(buf.data)
        cap == IF old < newLen THEN GrowCap(Max(old, 32), newLen) ELSE old
        grown == IF old < newLen THEN buf.data \o Zeros(cap - old) ELSE buf.data
    IN  [data |-> SubSeq(grown, 1, buf.length) \o data
                    \o SubSeq(grown, newLen + 1, cap),
         length |-> newLen]

\* a faulty bufPop: the length is reduced but the bytes are not moved
bufPopNoMove(buf, len) ==
    [data |-> buf.data, length |-> buf.length - len]

\* Buffer.copyWithin(0, len, buf.length), then the length is reduced
bufPop(buf, len) ==
    [data |-> SubSeq(buf.data, len + 1, buf.length)
                \o SubSeq(buf.data, buf.length - len + 1, Len(buf.data)),
     length |-> buf.length - len]

\* buf.data.subarray(0, buf.length): the unconsumed bytes
Bytes(buf) == SubSeq(buf.data, 1, buf.length)

(***************************************************************************)
(* Errors                                                                  *)
(***************************************************************************)
\* no exception / conn.err === null
NoErr == [kind |-> "none", code |-> 0, msg |-> <<>>]
\* new HTTPError(statusCode, message)
HTTPError(code, msg) == [kind |-> "HTTPError", code |-> code, msg |-> msg]
\* new Error(message)
PlainError(msg) == [kind |-> "Error", code |-> 0, msg |-> msg]
\* the Error object of the socket's 'error' event or of a failed write
SocketError == [kind |-> "Error", code |-> 0, msg |-> <<"s", "o", "c", "k", "e", "t">>]

(***************************************************************************)
(* The head framer                                                         *)
(***************************************************************************)
kMaxHeaderLen == 1024 * 8

\* an HTTPReq
Req(method, uri, version, headers) ==
    [method |-> method, uri |-> uri, version |-> version, headers |-> headers]

NoReq == Req(<<>>, <<>>, <<>>, <<>>)

\* data always ends with CRLF CRLF here, so a CRLF is found from every cur
RECURSIVE splitFrom(_, _)
splitFrom(data, cur) ==
    IF cur >= Len(data) THEN <<>>
    ELSE LET idx == IndexOf(data, CRLF, cur)
         IN  <<Slice(data, cur, idx)>> \o splitFrom(data, idx + 2)

splitLines(data) == splitFrom(data, 0)

\* [err, req]: the HTTPError thrown, or the method, uri and version
parseRequestLine(line) ==
    LET sp == {i \in 1..Len(line) : line[i] = " "}
        a == CHOOSE i \in sp : \A k \in sp : i <= k
        b == CHOOSE i \in sp : \A k \in sp : i >= k
        method == SubSeq(line, 1, a - 1)
        uri == SubSeq(line, a + 1, b - 1)
        version == SubSeq(line, b + 1, Len(line))
    IN  IF Len(line) = 0
        THEN [err |-> HTTPError(400, <<"e", "m", "p", "t", "y", " ", "r", "e", "q", "u", "e", "s", "t", " ", "l", "i", "n", "e">>), req |-> NoReq]
        ELSE IF Cardinality(sp) # 2
        THEN [err |-> HTTPError(400, <<"b", "a", "d", " ", "r", "e", "q", "u", "e", "s", "t", " ", "l", "i", "n", "e">>), req |-> NoReq]
        ELSE IF ~(Len(uri) > 0 /\ uri[1] = "/")
        THEN [err |-> HTTPError(400, <<"b", "a", "d", " ", "r", "e", "q", "u", "e", "s", "t", " ", "l", "i", "n", "e">>), req |-> NoReq]
        ELSE IF ~StartsWith(version, <<"H", "T", "T", "P", "/">>)
        THEN [err |-> HTTPError(400, <<"b", "a", "d", " ", "r", "e", "q", "u", "e", "s", "t", " ", "l", "i", "n", "e">>), req |-> NoReq]
        ELSE [err |-> NoErr,
              req |-> Req(method, uri, Slice(version, 5, Len(version)), <<>>)]

\* a faulty validateHeader: a colon at offset 0 is accepted
validateHeaderAnyColon(line) ==
    LET colon == IndexOf(line, <<":">>, 0)
    IN  IF colon < 0 THEN FALSE
        ELSE IF IndexOf(line, <<LF>>, 0) >= 0 THEN FALSE
        ELSE TRUE

validateHeader(line) ==
    LET colon == IndexOf(line, <<":">>, 0)
    IN  IF colon < 1 THEN FALSE
        ELSE IF IndexOf(line, <<LF>>, 0) >= 0 THEN FALSE
        ELSE TRUE

\* [err, req]: the HTTPError thrown, or the parsed request
parseHTTPReq(data) ==
    LET lines == splitLines(data)
        first == parseRequestLine(lines[1])
        fields == SubSeq(lines, 2, Len(lines) - 1)
    IN  IF first.err # NoErr THEN first
        ELSE IF \E i \in 1..Len(fields) : ~validateHeader(fields[i])
        THEN [err |-> HTTPError(400, <<"b", "a", "d", " ", "f", "i", "e", "l", "d">>), req |-> NoReq]
        ELSE [err |-> NoErr,
              req |-> Req(first.req.method, first.req.uri, first.req.version,
                          fields)]

\* a faulty cutMessage: the head is removed without its final CRLF
cutMessageShort(buf) ==
    LET idx == IndexOf(Bytes(buf), CRLFCRLF, 0)
        parsed == parseHTTPReq(Slice(buf.data, 0, idx + 4))
    IN  IF idx < 0
        THEN IF buf.length >= kMaxHeaderLen
             THEN [err |-> HTTPError(413, <<"h", "e", "a", "d", "e", "r", " ", "i", "s", " ", "t", "o", "o", " ", "l", "a", "r", "g", "e">>),
                   has |-> FALSE, msg |-> NoReq, buf |-> buf]
             ELSE [err |-> NoErr, has |-> FALSE, msg |-> NoReq, buf |-> buf]
        ELSE IF parsed.err # NoErr
        THEN [err |-> parsed.err, has |-> FALSE, msg |-> NoReq, buf |-> buf]
        ELSE [err |-> NoErr, has |-> TRUE, msg |-> parsed.req,
              buf |-> bufPop(buf, idx + 2)]

\* a faulty cutMessage: no limit on the size of a head
cutMessageNoLimit(buf) ==
    LET idx == IndexOf(Bytes(buf), CRLFCRLF, 0)
        parsed == parseHTTPReq(Slice(buf.data, 0, idx + 4))
    IN  IF idx < 0
        THEN [err |-> NoErr, has |-> FALSE, msg |-> NoReq, buf |-> buf]
        ELSE IF parsed.err # NoErr
        THEN [err |-> parsed.err, has |-> FALSE, msg |-> NoReq, buf |-> buf]
        ELSE [err |-> NoErr, has |-> TRUE, msg |-> parsed.req,
              buf |-> bufPop(buf, idx + 4)]

\* a faulty cutMessage: the limit is exceeded only above kMaxHeaderLen
cutMessageAbove(buf) ==
    LET idx == IndexOf(Bytes(buf), CRLFCRLF, 0)
        parsed == parseHTTPReq(Slice(buf.data, 0, idx + 4))
    IN  IF idx < 0
        THEN IF buf.length > kMaxHeaderLen
             THEN [err |-> HTTPError(413, <<"h", "e", "a", "d", "e", "r", " ", "i", "s", " ", "t", "o", "o", " ", "l", "a", "r", "g", "e">>),
                   has |-> FALSE, msg |-> NoReq, buf |-> buf]
             ELSE [err |-> NoErr, has |-> FALSE, msg |-> NoReq, buf |-> buf]
        ELSE IF parsed.err # NoErr
        THEN [err |-> parsed.err, has |-> FALSE, msg |-> NoReq, buf |-> buf]
        ELSE [err |-> NoErr, has |-> TRUE, msg |-> parsed.req,
              buf |-> bufPop(buf, idx + 4)]

\* [err, msg, buf]: err is the HTTPError thrown; has is FALSE for null (need
\* more data); buf is the buffer afterwards
cutMessage(buf) ==
    LET idx == IndexOf(Bytes(buf), CRLFCRLF, 0)
        parsed == parseHTTPReq(Slice(buf.data, 0, idx + 4))
    IN  IF idx < 0
        THEN IF buf.length >= kMaxHeaderLen
             THEN [err |-> HTTPError(413, <<"h", "e", "a", "d", "e", "r", " ", "i", "s", " ", "t", "o", "o", " ", "l", "a", "r", "g", "e">>),
                   has |-> FALSE, msg |-> NoReq, buf |-> buf]
             ELSE [err |-> NoErr, has |-> FALSE, msg |-> NoReq, buf |-> buf]
        ELSE IF parsed.err # NoErr
        THEN [err |-> parsed.err, has |-> FALSE, msg |-> NoReq, buf |-> buf]
        ELSE [err |-> NoErr, has |-> TRUE, msg |-> parsed.req,
              buf |-> bufPop(buf, idx + 4)]

\* [found, value]: found is FALSE for null.  The line is lower-cased as a
\* whole and split at every colon; name and value are the first two parts
RECURSIVE fieldGet(_, _)
fieldGet(headers, key) ==
    IF Len(headers) = 0 THEN [found |-> FALSE, value |-> <<>>]
    ELSE LET h == toLowerCase(Head(headers))
             colons == {i \in 1..Len(h) : h[i] = ":"}
             c1 == CHOOSE i \in colons : \A k \in colons : i <= k
             rest == colons \ {c1}
             c2 == IF rest = {} THEN Len(h) + 1
                   ELSE CHOOSE i \in rest : \A k \in rest : i <= k
             name == SubSeq(h, 1, c1 - 1)
             value == SubSeq(h, c1 + 1, c2 - 1)
         IN  IF name = toLowerCase(key)
             THEN [found |-> TRUE, value |-> trim(value)]
             ELSE fieldGet(Tail(headers), key)

(***************************************************************************)
(* The response encoder                                                    *)
(***************************************************************************)
\* kStatusMessage[code] || "???"
kStatusMessage(code) ==
    CASE code = 100 -> <<"C", "o", "n", "t", "i", "n", "u", "e">>
      [] code = 101 -> <<"S", "w", "i", "t", "c", "h", "i", "n", "g", " ", "P", "r", "o", "t", "o", "c", "o", "l", "s">>
      [] code = 200 -> <<"O", "K">>
      [] code = 201 -> <<"C", "r", "e", "a", "t", "e", "d">>
      [] code = 202 -> <<"A", "c", "c", "e", "p", "t", "e", "d">>
      [] code = 203 -> <<"N", "o", "n", "-", "A", "u", "t", "h", "o", "r", "i", "t", "a", "t", "i", "v", "e", " ", "I", "n", "f", "o", "r", "m", "a", "t", "i", "o", "n">>
      [] code = 204 -> <<"N", "o", " ", "C", "o", "n", "t", "e", "n", "t">>
      [] code = 205 -> <<"R", "e", "s", "e", "t", " ", "C", "o", "n", "t", "e", "n", "t">>
      [] code = 206 -> <<"P", "a", "r", "t", "i", "a", "l", " ", "C", "o", "n", "t", "e", "n", "t">>
      [] code = 300 -> <<"M", "u", "l", "t", "i", "p", "l", "e", " ", "C", "h", "o", "i", "c", "e", "s">>
      [] code = 301 -> <<"M", "o", "v", "e", "d", " ", "P", "e", "r", "m", "a", "n", "e", "n", "t", "l", "y">>
      [] code = 302 -> <<"F", "o", "u", "n", "d">>
      [] code = 303 -> <<"S", "e", "e", " ", "O", "t", "h", "e", "r">>
      [] code = 304 -> <<"N", "o", "t", " ", "M", "o", "d", "i", "f", "i", "e", "d">>
      [] code = 305 -> <<"U", "s", "e", " ", "P", "r", "o", "x", "y">>
      [] code = 307 -> <<"T", "e", "m", "p", "o", "r", "a", "r", "y", " ", "R", "e", "d", "i", "r", "e", "c", "t">>
      [] code = 400 -> <<"B", "a", "d", " ", "R", "e", "q", "u", "e", "s", "t">>
      [] code = 401 -> <<"U", "n", "a", "u", "t", "h", "o", "r", "i", "z", "e", "d">>
      [] code = 402 -> <<"P", "a", "y", "m", "e", "n", "t", " ", "R", "e", "q", "u", "i", "r", "e", "d">>
      [] code = 403 -> <<"F", "o", "r", "b", "i", "d", "d", "e", "n">>
      [] code = 404 -> <<"N", "o", "t", " ", "F", "o", "u", "n", "d">>
      [] code = 405 -> <<"M", "e", "t", "h", "o", "d", " ", "N", "o", "t", " ", "A", "l", "l", "o", "w", "e", "d">>
      [] code = 406 -> <<"N", "o", "t", " ", "A", "c", "c", "e", "p", "t", "a", "b", "l", "e">>
      [] code = 407 -> <<"P", "r", "o", "x", "y", " ", "A", "u", "t", "h", "e", "n", "t", "i", "c", "a", "t", "i", "o", "n", " ", "R", "e", "q", "u", "i", "r", "e", "d">>
      [] code = 408 -> <<"R", "e", "q", "u", "e", "s", "t", " ", "T", "i", "m", "e", "-", "o", "u", "t">>
      [] code = 409 -> <<"C", "o", "n", "f", "l", "i", "c", "t">>
      [] code = 410 -> <<"G", "o", "n", "e">>
      [] code = 411 -> <<"L", "e", "n", "g", "t", "h", " ", "R", "e", "q", "u", "i", "r", "e", "d">>
      [] code = 412 -> <<"P", "r", "e", "c", "o", "n", "d", "i", "t", "i", "o", "n", " ", "F", "a", "i", "l", "e", "d">>
      [] code = 413 -> <<"R", "e", "q", "u", "e", "s", "t", " ", "E", "n", "t", "i", "t", "y", " ", "T", "o", "o", " ", "L", "a", "r", "g", "e">>
      [] code = 414 -> <<"R", "e", "q", "u", "e", "s", "t", "-", "U", "R", "I", " ", "T", "o", "o", " ", "L", "a", "r", "g", "e">>
      [] code = 415 -> <<"U", "n", "s", "u", "p", "p", "o", "r", "t", "e", "d", " ", "M", "e", "d", "i", "a", " ", "T", "y", "p", "e">>
      [] code = 416 -> <<"R", "e", "q", "u", "e", "s", "t", "e", "d", " ", "r", "a", "n", "g", "e", " ", "n", "o", "t", " ", "s", "a", "t", "i", "s", "f", "i", "a", "b", "l", "e">>
      [] code = 417 -> <<"E", "x", "p", "e", "c", "t", "a", "t", "i", "o", "n", " ", "F", "a", "i", "l", "e", "d">>
      [] code = 500 -> <<"I", "n", "t", "e", "r", "n", "a", "l", " ", "S", "e", "r", "v", "e", "r", " ", "E", "r", "r", "o", "r">>
      [] code = 501 -> <<"N", "o", "t", " ", "I", "m", "p", "l", "e", "m", "e", "n", "t", "e", "d">>
      [] code = 502 -> <<"B", "a", "d", " ", "G", "a", "t", "e", "w", "a", "y">>
      [] code = 503 -> <<"S", "e", "r", "v", "i", "c", "e", " ", "U", "n", "a", "v", "a", "i", "l", "a", "b", "l", "e">>
      [] code = 504 -> <<"G", "a", "t", "e", "w", "a", "y", " ", "T", "i", "m", "e", "-", "o", "u", "t">>
      [] code = 505 -> <<"H", "T", "T", "P", " ", "V", "e", "r", "s", "i", "o", "n", " ", "n", "o", "t", " ", "s", "u", "p", "p", "o", "r", "t", "e", "d">>
      [] OTHER -> <<"?", "?", "?">>

\* the status line, each header field and the empty line
encodeHTTPResp(code, headers) ==
    <<"H", "T", "T", "P", "/", "1", ".", "1", " ">> \o NumToString(code, 10) \o <<" ">> \o kStatusMessage(code) \o CRLF
        \o Concat([i \in 1..Len(headers) |-> headers[i] \o CRLF])
        \o CRLF

\* a faulty writeHTTPResp: every response is declared chunked
framingHeaderChunked(len) == <<"T", "r", "a", "n", "s", "f", "e", "r", "-", "E", "n", "c", "o", "d", "i", "n", "g", ":", " ", "c", "h", "u", "n", "k", "e", "d">>

\* the header field writeHTTPResp adds for a body of declared length len
framingHeader(len) ==
    IF len < 0 THEN <<"T", "r", "a", "n", "s", "f", "e", "r", "-", "E", "n", "c", "o", "d", "i", "n", "g", ":", " ", "c", "h", "u", "n", "k", "e", "d">>
    ELSE <<"C", "o", "n", "t", "e", "n", "t", "-", "L", "e", "n", "g", "t", "h", ":", " ">> \o NumToString(len, 10)

\* a faulty encodeBodyData: the chunk size written in decimal
encodeBodyDataDecimal(len, data) ==
    IF len < 0
    THEN NumToString(Len(data), 10) \o CRLF \o data \o CRLF
    ELSE data

\* what writeHTTPResp writes for one unit read from the body, of declared
\* length len: the unit itself, or the unit as one chunk
encodeBodyData(len, data) ==
    IF len < 0
    THEN NumToString(Len(data), 16) \o CRLF \o data \o CRLF
    ELSE data

(***************************************************************************)
(* Body readers                                                            *)
(***************************************************************************)
\* the BodyReader of a request: kind is "length" (readerFromConnLength),
\* "chunks" (readerFromGenerator(readChunks)) or "eof" (readerFromConnEOF);
\* length is the declared length, remain the closure variable of
\* readerFromConnLength.  gpc, cremain and glast are the position and the
\* locals (remain, last) of the readChunks generator.
Reader(kind, length) ==
    [kind |-> kind, length |-> length, remain |-> Max(length, 0),
     gpc |-> "size", cremain |-> 0, glast |-> FALSE]

NoReader == Reader("none", 0)

parseDec(s) ==
    IF \E i \in 1..Len(s) : s[i] \notin Digits THEN NaN ELSE parseInt(s, 10)

isHex(s) == \A i \in 1..Len(s) : s[i] \in Digits \cup HexLower \cup HexUpper

\* a faulty readerFromReq: the body length of GET and HEAD is not set to 0
readerFromReqAnyMethod(req) ==
    LET contentLen == fieldGet(req.headers, <<"C", "o", "n", "t", "e", "n", "t", "-", "L", "e", "n", "g", "t", "h">>)
        bodyLen == IF contentLen.found THEN parseDec(contentLen.value) ELSE 0 - 1
        bodyAllowed == ~(req.method = <<"G", "E", "T">> \/ req.method = <<"H", "E", "A", "D">>)
        te == fieldGet(req.headers, <<"T", "r", "a", "n", "s", "f", "e", "r", "-", "E", "n", "c", "o", "d", "i", "n", "g">>)
        chunked == te.found /\ te.value = <<"c", "h", "u", "n", "k", "e", "d">>
    IN  IF contentLen.found /\ bodyLen = NaN
        THEN [err |-> HTTPError(400, <<"b", "a", "d", " ", "C", "o", "n", "t", "e", "n", "t", "-", "L", "e", "n", "g", "t", "h", ".">>), reader |-> NoReader]
        ELSE IF ~bodyAllowed /\ (bodyLen > 0 \/ chunked)
        THEN [err |-> HTTPError(400, <<"H", "T", "T", "P", " ", "b", "o", "d", "y", " ", "n", "o", "t", " ", "a", "l", "l", "o", "w", "e", "d", ".">>), reader |-> NoReader]
        ELSE IF bodyLen >= 0 THEN [err |-> NoErr, reader |-> Reader("length", bodyLen)]
        ELSE IF chunked THEN [err |-> NoErr, reader |-> Reader("chunks", 0 - 1)]
        ELSE [err |-> NoErr, reader |-> Reader("eof", 0 - 1)]

\* [err, reader]: the HTTPError thrown, or the reader
readerFromReq(req) ==
    LET contentLen == fieldGet(req.headers, <<"C", "o", "n", "t", "e", "n", "t", "-", "L", "e", "n", "g", "t", "h">>)
        bodyLen == IF contentLen.found THEN parseDec(contentLen.value) ELSE 0 - 1
        bodyAllowed == ~(req.method = <<"G", "E", "T">> \/ req.method = <<"H", "E", "A", "D">>)
        te == fieldGet(req.headers, <<"T", "r", "a", "n", "s", "f", "e", "r", "-", "E", "n", "c", "o", "d", "i", "n", "g">>)
        chunked == te.found /\ te.value = <<"c", "h", "u", "n", "k", "e", "d">>
    IN  IF contentLen.found /\ bodyLen = NaN
        THEN [err |-> HTTPError(400, <<"b", "a", "d", " ", "C", "o", "n", "t", "e", "n", "t", "-", "L", "e", "n", "g", "t", "h", ".">>), reader |-> NoReader]
        ELSE IF ~bodyAllowed /\ (bodyLen > 0 \/ chunked)
        THEN [err |-> HTTPError(400, <<"H", "T", "T", "P", " ", "b", "o", "d", "y", " ", "n", "o", "t", " ", "a", "l", "l", "o", "w", "e", "d", ".">>), reader |-> NoReader]
        ELSE IF ~bodyAllowed THEN [err |-> NoErr, reader |-> Reader("length", 0)]
        ELSE IF bodyLen >= 0 THEN [err |-> NoErr, reader |-> Reader("length", bodyLen)]
        ELSE IF chunked THEN [err |-> NoErr, reader |-> Reader("chunks", 0 - 1)]
        ELSE [err |-> NoErr, reader |-> Reader("eof", 0 - 1)]

\* the number of buffers countSheep yields
kSheepCount == 100

\* an HTTPRes: body is "req" (the request's reader), "sheep"
\* (readerFromGenerator(countSheep())) or "mem" (readerFromMemory(data)) with
\* its closure variable done; length is body.length; i is countSheep's counter
Res(code, headers, body, length, data) ==
    [code |-> code, headers |-> headers, body |-> body, length |-> length,
     data |-> data, done |-> FALSE, i |-> 0]

NoRes == Res(0, <<>>, "none", 0, <<>>)

handleReq(req, body) ==
    LET hs == <<<<"S", "e", "r", "v", "e", "r", ":", " ", "m", "y", "_", "f", "i", "r", "s", "t", "_", "h", "t", "t", "p", "_", "s", "e", "r", "v", "e", "r">>>>
    IN  IF req.uri = <<"/", "e", "c", "h", "o">> THEN Res(200, hs, "req", body.length, <<>>)
        ELSE IF req.uri = <<"/", "s", "h", "e", "e", "p">> THEN Res(200, hs, "sheep", 0 - 1, <<>>)
        ELSE Res(200, hs, "mem", Len(<<"h", "e", "l", "l", "o", " ", "w", "o", "r", "l", "d", ".", "\n">>), <<"h", "e", "l", "l", "o", " ", "w", "o", "r", "l", "d", ".", "\n">>)

\* the response newConn sends for an HTTPError
errorResp(e) ==
    Res(e.code, <<>>, "mem", Len(e.msg) + 1, e.msg \o <<LF>>)

(***************************************************************************)
(* The client: what one connection's peer sends                            *)
(***************************************************************************)
\* the largest number of bytes one 'data' event delivers
MaxRead == 1024
\* the largest number of units of a chunk-encoded request body
MaxUnits == 2

Pad(n) == [i \in 1..n |-> "a"]

\* the units a client's chunk-encoded body is made of: they hold CR, LF and
\* hexadecimal digits, and one is long enough for a two-digit chunk size
UnitSet == {<<"a">>, <<"\r", "\n">>, <<"0", "\r", "\n", "\r", "\n">>, <<"0", "1", "2", "3", "4", "5", "6", "7", "8", "9", "a", "b", "c", "d", "e", "f">>}

RECURSIVE SeqsUpTo(_, _)
SeqsUpTo(S, n) ==
    IF n = 0 THEN {<<>>}
    ELSE SeqsUpTo(S, n - 1)
            \cup {Append(s, x) : s \in {t \in SeqsUpTo(S, n - 1) : Len(t) = n - 1}, x \in S}

UnitSeqs == SeqsUpTo(UnitSet, MaxUnits)

\* a body of the given units as a client chunk-encodes it: each unit framed as
\* writeHTTPResp frames a unit, then the last-chunk
chunkEncode(units) ==
    Concat([i \in 1..Len(units) |-> encodeBodyData(0 - 1, units[i])])
        \o encodeBodyData(0 - 1, <<>>)

\* the header lines a client's head is made of: valid fields, a value with a
\* second colon, a value that is no number, upper case in a value, a line
\* with its first colon at position 0, a line with a line feed, a line
\* without a colon
LineSet == {<<"C", "o", "n", "t", "e", "n", "t", "-", "L", "e", "n", "g", "t", "h", ":", " ", "0">>, <<"c", "o", "n", "t", "e", "n", "t", "-", "l", "e", "n", "g", "t", "h", ":", "1", ":", "2">>, <<"C", "o", "n", "t", "e", "n", "t", "-", "L", "e", "n", "g", "t", "h", ":", " ", "1", "x">>,
            <<"T", "r", "a", "n", "s", "f", "e", "r", "-", "E", "n", "c", "o", "d", "i", "n", "g", ":", " ", "c", "h", "u", "n", "k", "e", "d">>, <<"H", "o", "s", "t", ":", " ", "X">>, <<":", "a", ":", "b">>, <<"a", "\n", "b", ":", "c">>,
            <<"a", "b">>}

LineSeqs == SeqsUpTo(LineSet, MaxUnits)

\* one request as sent: the head, and the body either as raw bytes or (enc)
\* as the chunk encoding of the connection's units; or (lines) a request
\* line, given as head, followed by the connection's units as header lines
Part(head, body) == [head |-> head, body |-> body, enc |-> FALSE, lines |-> FALSE]
EncPart(head) == [head |-> head, body |-> <<>>, enc |-> TRUE, lines |-> FALSE]
LinesPart(head) == [head |-> head, body |-> <<>>, enc |-> FALSE, lines |-> TRUE]

\* a script: the requests sent on one connection, the stream offsets at
\* which the transport may split the stream into reads, and whether the
\* socket may fail on this connection
Script(parts, cuts, fail) == [parts |-> parts, cuts |-> cuts, fail |-> fail]

Scripts == <<
    \* 1: two requests and a third after the HTTP/1.0 one
    Script(<<Part(<<"G", "E", "T", " ", "/", "m", "i", "s", "s", "i", "n", "g", " ", "H", "T", "T", "P", "/", "1", ".", "1", "\r", "\n", "H", "o", "s", "t", ":", " ", "x", "\r", "\n", "\r", "\n">>, <<>>),
             Part(<<"G", "E", "T", " ", "/", " ", "H", "T", "T", "P", "/", "1", ".", "0", "\r", "\n", "\r", "\n">>, <<>>),
             Part(<<"G", "E", "T", " ", "/", "n", "e", "v", "e", "r", " ", "H", "T", "T", "P", "/", "1", ".", "1", "\r", "\n", "\r", "\n">>, <<>>)>>,
           {1, 10, 31, 32, 33, 34, 50, 51, 60}, FALSE),
    \* 2: an echoed Content-Length body, then another request
    Script(<<Part(<<"P", "O", "S", "T", " ", "/", "e", "c", "h", "o", " ", "H", "T", "T", "P", "/", "1", ".", "1", "\r", "\n", "C", "o", "n", "t", "e", "n", "t", "-", "L", "e", "n", "g", "t", "h", ":", " ", "5", "\r", "\n", "\r", "\n">>, <<"h", "e", "l", "l", "o">>),
             Part(<<"G", "E", "T", " ", "/", " ", "H", "T", "T", "P", "/", "1", ".", "1", "\r", "\n", "\r", "\n">>, <<>>)>>,
           {20, 40, 41, 42, 43, 45, 47, 48, 64}, TRUE),
    \* 3: a Content-Length body the handler ignores, then HEAD
    Script(<<Part(<<"P", "O", "S", "T", " ", "/", "x", " ", "H", "T", "T", "P", "/", "1", ".", "1", "\r", "\n", "c", "o", "n", "t", "e", "n", "t", "-", "l", "e", "n", "g", "t", "h", ":", "3", "\r", "\n", "\r", "\n">>, <<"a", "b", "c">>),
             Part(<<"H", "E", "A", "D", " ", "/", " ", "H", "T", "T", "P", "/", "1", ".", "1", "\r", "\n", "\r", "\n">>, <<>>)>>,
           {10, 37, 38, 39, 40, 41, 42, 50, 59}, FALSE),
    \* 4: an echoed chunked body of any units, then another request
    Script(<<EncPart(<<"P", "O", "S", "T", " ", "/", "e", "c", "h", "o", " ", "H", "T", "T", "P", "/", "1", ".", "1", "\r", "\n", "T", "r", "a", "n", "s", "f", "e", "r", "-", "E", "n", "c", "o", "d", "i", "n", "g", ":", " ", "c", "h", "u", "n", "k", "e", "d", "\r", "\n", "\r", "\n">>),
             Part(<<"G", "E", "T", " ", "/", " ", "H", "T", "T", "P", "/", "1", ".", "0", "\r", "\n", "\r", "\n">>, <<>>)>>,
           {49, 51, 52, 53, 54, 55, 57, 60, 73}, FALSE),
    \* 5: a chunked body the handler ignores, then another request
    Script(<<Part(<<"P", "U", "T", " ", "/", "x", " ", "H", "T", "T", "P", "/", "1", ".", "1", "\r", "\n", "T", "r", "a", "n", "s", "f", "e", "r", "-", "E", "n", "c", "o", "d", "i", "n", "g", ":", " ", "C", "h", "u", "n", "k", "e", "d", "\r", "\n", "\r", "\n">>,
                  <<"3", "\r", "\n", "a", "b", "c", "\r", "\n", "A", "\r", "\n", "0", "1", "2", "3", "4", "5", "6", "7", "8", "9", "\r", "\n", "0", "\r", "\n", "\r", "\n">>),
             Part(<<"G", "E", "T", " ", "/", " ", "H", "T", "T", "P", "/", "1", ".", "1", "\r", "\n", "\r", "\n">>, <<>>)>>,
           {46, 47, 49, 50, 52, 53, 54, 55, 57, 60, 69, 72, 74, 75}, FALSE),
    \* 6: an echoed body that ends with the stream
    Script(<<Part(<<"P", "O", "S", "T", " ", "/", "e", "c", "h", "o", " ", "H", "T", "T", "P", "/", "1", ".", "1", "\r", "\n", "\r", "\n">>, <<"d", "a", "t", "a">>)>>,
           {10, 22, 23, 25}, TRUE),
    \* 7: a Content-Length body that ends early
    Script(<<Part(<<"P", "O", "S", "T", " ", "/", "e", "c", "h", "o", " ", "H", "T", "T", "P", "/", "1", ".", "1", "\r", "\n", "C", "o", "n", "t", "e", "n", "t", "-", "L", "e", "n", "g", "t", "h", ":", " ", "5", "\r", "\n", "\r", "\n">>, <<"h", "e", "l">>)>>,
           {41, 42, 43, 44}, FALSE),
    \* 8: a header line without a colon
    Script(<<Part(<<"G", "E", "T", " ", "/", " ", "H", "T", "T", "P", "/", "1", ".", "1", "\r", "\n", "B", "a", "d", "H", "e", "a", "d", "e", "r", "\r", "\n", "\r", "\n">>, <<>>)>>,
           {16, 27, 28}, TRUE),
    \* 9: an echoed chunked body with a malformed second chunk
    Script(<<Part(<<"P", "O", "S", "T", " ", "/", "e", "c", "h", "o", " ", "H", "T", "T", "P", "/", "1", ".", "1", "\r", "\n", "T", "r", "a", "n", "s", "f", "e", "r", "-", "E", "n", "c", "o", "d", "i", "n", "g", ":", " ", "c", "h", "u", "n", "k", "e", "d", "\r", "\n", "\r", "\n">>,
                  <<"2", "\r", "\n", "h", "i", "\r", "\n", "x", "y", "z", "\r", "\n", "0", "\r", "\n", "\r", "\n">>)>>,
           {50, 51, 52, 53, 54, 56, 57, 58, 60, 63}, TRUE),
    \* 10: a chunk-size line of more than 32 bytes
    Script(<<Part(<<"P", "O", "S", "T", " ", "/", "e", "c", "h", "o", " ", "H", "T", "T", "P", "/", "1", ".", "1", "\r", "\n", "T", "r", "a", "n", "s", "f", "e", "r", "-", "E", "n", "c", "o", "d", "i", "n", "g", ":", " ", "c", "h", "u", "n", "k", "e", "d", "\r", "\n", "\r", "\n">>,
                  <<"0", "0", "0", "0", "0", "0", "0", "0", "0", "0", "0", "0", "0", "0", "0", "0", "0", "0", "0", "0", "0", "0", "0", "0", "0", "0", "0", "0", "0", "0", "0", "0", "0", "0", "0", "2", "\r", "\n", "h", "i", "\r", "\n", "0", "\r", "\n", "\r", "\n">>)>>,
           {51, 60, 83, 84, 85, 87, 88, 90}, FALSE),
    \* 11: a head longer than kMaxHeaderLen
    Script(<<Part(<<"G", "E", "T", " ", "/", " ", "H", "T", "T", "P", "/", "1", ".", "1", "\r", "\n", "X", ":", " ">> \o Pad(8230) \o CRLFCRLF, <<>>)>>,
           {1000, 2000, 3000, 4000, 5000, 6000, 7000, 8000, 8200}, FALSE),
    \* 12: more than kMaxHeaderLen + MaxRead bytes without the end of a head
    Script(<<Part(<<"G", "E", "T", " ", "/", " ", "H", "T", "T", "P", "/", "1", ".", "1", "\r", "\n", "X", ":", " ">> \o Pad(9400), <<>>)>>,
           {1000, 2000, 3000, 4000, 5000, 6000, 7000, 8000, 8191, 8192, 9000,
            9215, 9300}, FALSE),
    \* 13: the counter
    Script(<<Part(<<"G", "E", "T", " ", "/", "s", "h", "e", "e", "p", " ", "H", "T", "T", "P", "/", "1", ".", "0", "\r", "\n", "\r", "\n">>, <<>>)>>, {10}, FALSE),
    \* 14: GET with a body
    Script(<<Part(<<"G", "E", "T", " ", "/", " ", "H", "T", "T", "P", "/", "1", ".", "1", "\r", "\n", "C", "o", "n", "t", "e", "n", "t", "-", "L", "e", "n", "g", "t", "h", ":", " ", "1", "0", "\r", "\n", "\r", "\n">>, <<"0", "1", "2", "3", "4", "5", "6", "7", "8", "9">>)>>,
           {36, 37, 40}, FALSE),
    \* 15: GET with any header lines
    Script(<<LinesPart(<<"G", "E", "T", " ", "/", " ", "H", "T", "T", "P", "/", "1", ".", "1", "\r", "\n">>)>>, {16}, FALSE),
    \* 16: POST with any header lines and no body
    Script(<<LinesPart(<<"P", "O", "S", "T", " ", "/", "x", " ", "H", "T", "T", "P", "/", "1", ".", "1", "\r", "\n">>)>>, {18}, FALSE),
    \* 17: an echoed chunked body that begins with an empty chunk-size line
    Script(<<Part(<<"P", "O", "S", "T", " ", "/", "e", "c", "h", "o", " ", "H", "T", "T", "P", "/", "1", ".", "1", "\r", "\n", "T", "r", "a", "n", "s", "f", "e", "r", "-", "E", "n", "c", "o", "d", "i", "n", "g", ":", " ", "c", "h", "u", "n", "k", "e", "d", "\r", "\n", "\r", "\n">>,
                  <<"\r", "\n", "\r", "\n", "0", "\r", "\n", "\r", "\n">>)>>,
           {51, 53}, FALSE),
    \* 18: a request, then a head that the end of the stream cuts short
    Script(<<Part(<<"G", "E", "T", " ", "/", " ", "H", "T", "T", "P", "/", "1", ".", "1", "\r", "\n", "\r", "\n">>, <<>>),
             Part(<<"G", "E", "T", " ", "/", "x", " ", "H", "T", "T", "P", "/", "1", ".", "1", "\r", "\n", "H", "o", "s", "t", ":", " ", "x", "\r", "\n">>, <<>>)>>,
           {18, 20}, FALSE)
>>

HasEnc(sid) == \E i \in 1..Len(Scripts[sid].parts) : Scripts[sid].parts[i].enc

HasLines(sid) == \E i \in 1..Len(Scripts[sid].parts) : Scripts[sid].parts[i].lines

\* the head of a request as sent
HeadBytes(p, us) ==
    IF p.lines
    THEN p.head \o Concat([i \in 1..Len(us) |-> us[i] \o CRLF]) \o CRLF
    ELSE p.head

PartBytes(p, us) ==
    HeadBytes(p, us) \o (IF p.enc THEN chunkEncode(us) ELSE p.body)

\* the byte stream of script sid
Stream(sid, us) ==
    Concat([i \in 1..Len(Scripts[sid].parts) |-> PartBytes(Scripts[sid].parts[i], us)])

(***************************************************************************)
(* State                                                                   *)
(***************************************************************************)
VARIABLES
    \* the peer and the socket: the script and units of this connection, the
    \* number of stream bytes delivered by 'data' events, and whether the
    \* socket has failed
    sid, units, pos, sockDead,
    \* the TCPConn: conn.err, conn.ended, conn.reader (the index in reads of
    \* the promise whose callbacks it holds, 0 for null), whether the socket
    \* is paused, the unconsumed promises of soRead calls
    connErr, ended, reader, paused, reads,
    \* the unconsumed promises of soWrite calls and the bytes given to the
    \* latest socket.write
    writes, wrote,
    \* socket.destroy() was called; an event handler threw
    destroyed, crashed,
    \* newConn / serveClient / writeHTTPResp: the position, whether inside the
    \* try block of serveClient ("serve") or of the error response ("error"),
    \* buf, msg, reqBody, the response being written, which loop called
    \* body.read() ("write" or "drain"), the value read() returned, the local
    \* last of writeHTTPResp, the exception caught by newConn
    pc, mode, buf, msg, reqBody, resp, caller, rv, last, exc,
    \* history: the requests framed, the body bytes each request's reader
    \* returned, whether the current request's reader has returned an empty
    \* buffer, the responses begun (status code and the body units written),
    \* the number of responses of serveClient written completely
    framed, delivered, bodyEnded, out, answered,
    \* for comparing two deliveries of one stream: which delivery this is,
    \* and the outcome of the first
    run, ref,
    \* for the buffer under any caller: the number of bytes popped so far
    popped

envVars == <<sid, units, pos, sockDead>>
connVars == <<connErr, ended, reader, paused, reads>>
wrVars == <<writes, wrote>>
procVars == <<pc, mode, buf, msg, reqBody, resp, caller, rv, last, exc>>
histVars == <<framed, delivered, bodyEnded, out, answered>>
runVars == <<run, ref, popped>>
vars == <<envVars, connVars, wrVars, destroyed, crashed, procVars, histVars,
          runVars>>

\* a promise: pending, resolved with a value, or rejected
Pending == [st |-> "pending", val |-> <<>>]
Resolved(v) == [st |-> "resolved", val |-> v]
Rejected == [st |-> "rejected", val |-> <<>>]

RemoveLast(s) == SubSeq(s, 1, Len(s) - 1)
Settled(ps) == Len(ps) > 0 /\ ps[Len(ps)].st # "pending"

TheStream == Stream(sid, units)

\* what a connection came to: the requests framed, the body bytes each
\* request's reader returned, the responses, and the exception newConn caught
Outcome == [framed |-> framed, delivered |-> delivered, out |-> out, exc |-> exc]

\* the state newConn starts in: soInit(socket) on a socket created paused
\* (pauseOnConnect), serveClient at the top of its loop with an empty buffer
Fresh ==
    /\ pos = 0 /\ sockDead = FALSE
    /\ connErr = NoErr /\ ended = FALSE /\ reader = 0 /\ paused = TRUE
    /\ reads = <<>> /\ writes = <<>> /\ wrote = <<>>
    /\ destroyed = FALSE /\ crashed = FALSE
    /\ pc = "loop" /\ mode = "serve" /\ buf = EmptyBuf /\ msg = NoReq
    /\ reqBody = NoReader /\ resp = NoRes /\ caller = "write" /\ rv = <<>>
    /\ last = FALSE /\ exc = NoErr
    /\ framed = <<>> /\ delivered = <<>> /\ bodyEnded = FALSE
    /\ out = <<>> /\ answered = 0

Init ==
    /\ sid \in 1..Len(Scripts)
    /\ units \in (IF HasEnc(sid) THEN UnitSeqs
                 ELSE IF HasLines(sid) THEN LineSeqs ELSE {<<>>})
    /\ Fresh
    /\ run = 1 /\ ref = Outcome /\ popped = 0

(***************************************************************************)
(* TCPConn: soInit's event handlers, soRead, soWrite                       *)
(***************************************************************************)
\* a faulty soRead: conn.ended is looked at before conn.err
soReadEndedFirst ==
    IF ended
    THEN reads' = Append(reads, Resolved(<<>>)) /\ UNCHANGED <<reader, paused>>
    ELSE IF connErr # NoErr
    THEN reads' = Append(reads, Rejected) /\ UNCHANGED <<reader, paused>>
    ELSE /\ reads' = Append(reads, Pending)
         /\ reader' = Len(reads) + 1
         /\ paused' = FALSE

\* a faulty soRead: conn.ended is not looked at
soReadIgnoresEnd ==
    IF connErr # NoErr
    THEN reads' = Append(reads, Rejected) /\ UNCHANGED <<reader, paused>>
    ELSE /\ reads' = Append(reads, Pending)
         /\ reader' = Len(reads) + 1
         /\ paused' = FALSE

\* soRead(conn); the promise it returns becomes the last of reads
soRead ==
    IF connErr # NoErr
    THEN reads' = Append(reads, Rejected) /\ UNCHANGED <<reader, paused>>
    ELSE IF ended
    THEN reads' = Append(reads, Resolved(<<>>)) /\ UNCHANGED <<reader, paused>>
    ELSE /\ reads' = Append(reads, Pending)
         /\ reader' = Len(reads) + 1
         /\ paused' = FALSE

\* soWrite(conn, data); the promise it returns becomes the last of writes
soWrite(data) ==
    IF connErr # NoErr
    THEN writes' = Append(writes, Rejected) /\ wrote' = wrote
    ELSE /\ writes' = Append(writes, Pending)
         /\ wrote' = data

Live == ~destroyed /\ ~crashed

\* a faulty 'data' handler: the socket is not paused
OnDataNoPause ==
    /\ Live /\ ~sockDead /\ ~paused /\ ~ended
    /\ LET s == TheStream
       IN  \E n \in 1..Min(MaxRead, Len(s) - pos) :
              /\ pos + n = Len(s) \/ pos + n \in Scripts[sid].cuts
              /\ pos' = pos + n
              /\ IF reader = 0
                 THEN crashed' = TRUE /\ UNCHANGED <<reads, reader>>
                 ELSE /\ reads' = [reads EXCEPT ![reader] =
                                      Resolved(SubSeq(s, pos + 1, pos + n))]
                      /\ reader' = 0
                      /\ UNCHANGED crashed
    /\ UNCHANGED <<sid, units, sockDead, connErr, ended, paused, wrVars,
                   destroyed, procVars, histVars, runVars>>

\* socket.on("data"): the next n bytes of the stream arrive
OnData ==
    /\ Live /\ ~sockDead /\ ~paused /\ ~ended
    /\ LET s == TheStream
       IN  \E n \in 1..Min(MaxRead, Len(s) - pos) :
              /\ pos + n = Len(s) \/ pos + n \in Scripts[sid].cuts
              /\ pos' = pos + n
              /\ IF reader = 0
                 THEN crashed' = TRUE /\ UNCHANGED <<reads, reader>>
                 ELSE /\ reads' = [reads EXCEPT ![reader] =
                                      Resolved(SubSeq(s, pos + 1, pos + n))]
                      /\ reader' = 0
                      /\ UNCHANGED crashed
    /\ paused' = TRUE
    /\ UNCHANGED <<sid, units, sockDead, connErr, ended, wrVars, destroyed,
                   procVars, histVars, runVars>>

\* a faulty 'end' handler: conn.ended is not set
OnEndNoFlag ==
    /\ Live /\ ~sockDead /\ ~paused /\ ~ended
    /\ pos = Len(TheStream)
    /\ IF reader # 0
       THEN reads' = [reads EXCEPT ![reader] = Resolved(<<>>)] /\ reader' = 0
       ELSE UNCHANGED <<reads, reader>>
    /\ UNCHANGED <<envVars, connErr, ended, paused, wrVars, destroyed, crashed,
                   procVars, histVars, runVars>>

\* socket.on("end"): the peer has sent everything and closed its side
OnEnd ==
    /\ Live /\ ~sockDead /\ ~paused /\ ~ended
    /\ pos = Len(TheStream)
    /\ ended' = TRUE
    /\ IF reader # 0
       THEN reads' = [reads EXCEPT ![reader] = Resolved(<<>>)] /\ reader' = 0
       ELSE UNCHANGED <<reads, reader>>
    /\ UNCHANGED <<envVars, connErr, paused, wrVars, destroyed, crashed,
                   procVars, histVars, runVars>>

\* the socket fails (the peer resets the connection): no more data arrives,
\* pending writes fail, and an 'error' event follows
SockFail ==
    /\ Live /\ ~sockDead /\ Scripts[sid].fail
    /\ sockDead' = TRUE
    /\ UNCHANGED <<sid, units, pos, connVars, wrVars, destroyed, crashed,
                   procVars, histVars, runVars>>

\* socket.on("error")
OnError ==
    /\ Live /\ sockDead /\ connErr = NoErr
    /\ connErr' = SocketError
    /\ IF reader # 0
       THEN reads' = [reads EXCEPT ![reader] = Rejected] /\ reader' = 0
       ELSE UNCHANGED <<reads, reader>>
    /\ UNCHANGED <<envVars, ended, paused, wrVars, destroyed, crashed,
                   procVars, histVars, runVars>>

\* the callback of socket.write runs: without an error, or with one once the
\* socket has failed
OnWritten ==
    /\ Live
    /\ \E i \in 1..Len(writes) :
          /\ writes[i].st = "pending"
          /\ \A j \in 1..(i - 1) : writes[j].st # "pending"
          /\ writes' = [writes EXCEPT ![i] =
                            IF sockDead THEN Rejected ELSE Resolved(<<>>)]
    /\ UNCHANGED <<envVars, connVars, wrote, destroyed, crashed, procVars,
                   histVars, runVars>>

(***************************************************************************)
(* serveClient, writeHTTPResp, the readers' read(), newConn                *)
(***************************************************************************)
\* an exception leaves serveClient for newConn's catch; one thrown while the
\* error response is written is ignored
Throw(e) ==
    IF mode = "serve"
    THEN pc' = "catch" /\ exc' = e
    ELSE pc' = "finally" /\ exc' = exc

\* writeHTTPResp up to its first await: the framing header is added and the
\* head is written
BeginResp(r) ==
    LET hs == Append(r.headers, framingHeader(r.length))
    IN  /\ resp' = [r EXCEPT !.headers = hs]
        /\ soWrite(encodeHTTPResp(r.code, hs))
        /\ out' = Append(out, [code |-> r.code, body |-> <<>>])
        /\ pc' = "awaitWrHead"

\* a faulty serveClient: the connection is kept open whatever the version
AfterRespKeepAlive ==
    IF mode = "error" THEN pc' = "finally" /\ UNCHANGED <<caller, answered>>
    ELSE /\ answered' = answered + 1
         /\ pc' = "read" /\ caller' = "drain"

\* writeHTTPResp has returned: serveClient returns for HTTP/1.0 and drains the
\* request body otherwise; newConn goes on to its finally block
AfterResp ==
    IF mode = "error" THEN pc' = "finally" /\ UNCHANGED <<caller, answered>>
    ELSE /\ answered' = answered + 1
         /\ IF msg.version = <<"1", ".", "0">>
            THEN pc' = "finally" /\ caller' = caller
            ELSE pc' = "read" /\ caller' = "drain"

\* the reader body.read() is called on
CurReader == IF caller = "write" THEN resp.body ELSE "req"

\* read() of the request's reader returns data
ReturnReq(data) ==
    /\ rv' = data
    /\ pc' = "gotData"
    /\ delivered' = [delivered EXCEPT ![Len(delivered)] = @ \o data]
    /\ bodyEnded' = (bodyEnded \/ Len(data) = 0)

\* serveClient, top of the loop: cutMessage throws
ServeLoopThrow ==
    /\ Live /\ pc = "loop"
    /\ cutMessage(buf).err # NoErr
    /\ Throw(cutMessage(buf).err)
    /\ UNCHANGED <<envVars, connVars, wrVars, destroyed, crashed, mode, buf, msg,
                   reqBody, resp, caller, rv, last, histVars, runVars>>

\* serveClient, top of the loop: cutMessage returns null and soRead is awaited
ServeLoopMore ==
    /\ Live /\ pc = "loop"
    /\ cutMessage(buf).err = NoErr /\ ~cutMessage(buf).has
    /\ soRead
    /\ pc' = "awaitHead"
    /\ UNCHANGED <<envVars, connErr, ended, wrVars, destroyed, crashed, mode, buf,
                   msg, reqBody, resp, caller, rv, last, exc, histVars, runVars>>

\* serveClient, top of the loop: a request is framed but readerFromReq throws
ServeLoopNoReader ==
    /\ Live /\ pc = "loop"
    /\ LET r == cutMessage(buf)
           rb == readerFromReq(r.msg)
       IN  /\ r.err = NoErr /\ r.has
           /\ rb.err # NoErr
           /\ buf' = r.buf /\ msg' = r.msg
           /\ framed' = Append(framed, r.msg)
           /\ delivered' = Append(delivered, <<>>)
           /\ bodyEnded' = FALSE
           /\ Throw(rb.err)
    /\ UNCHANGED <<envVars, connVars, wrVars, destroyed, crashed, mode, reqBody,
                   resp, caller, rv, last, out, answered, runVars>>

\* serveClient, top of the loop: a request is framed, its reader is built,
\* handleReq makes the response and writeHTTPResp writes its head
ServeLoopRequest ==
    /\ Live /\ pc = "loop"
    /\ LET r == cutMessage(buf)
           rb == readerFromReq(r.msg)
       IN  /\ r.err = NoErr /\ r.has
           /\ rb.err = NoErr
           /\ buf' = r.buf /\ msg' = r.msg
           /\ framed' = Append(framed, r.msg)
           /\ delivered' = Append(delivered, <<>>)
           /\ bodyEnded' = FALSE
           /\ reqBody' = rb.reader
           /\ BeginResp(handleReq(r.msg, rb.reader))
    /\ caller' = "write"
    /\ UNCHANGED <<envVars, connVars, destroyed, crashed, mode, rv, last, exc,
                   answered, runVars>>

\* a faulty serveClient: the end of the stream always ends the loop cleanly
ServeHeadCleanEOF ==
    /\ Live /\ pc = "awaitHead" /\ Settled(reads)
    /\ reads' = RemoveLast(reads)
    /\ LET p == reads[Len(reads)]
           b == bufPush(buf, p.val)
       IN  IF p.st = "rejected" THEN Throw(SocketError) /\ buf' = buf
           ELSE /\ buf' = b
                /\ IF Len(p.val) = 0 /\ b.length = 0
                   THEN pc' = "finally" /\ exc' = exc
                   ELSE IF Len(p.val) = 0
                   THEN pc' = "finally" /\ exc' = exc
                   ELSE pc' = "loop" /\ exc' = exc
    /\ UNCHANGED <<envVars, connErr, ended, reader, paused, wrVars, destroyed,
                   crashed, mode, msg, reqBody, resp, caller, rv, last, histVars,
                   runVars>>

\* serveClient after `await soRead(conn)`
ServeHead ==
    /\ Live /\ pc = "awaitHead" /\ Settled(reads)
    /\ reads' = RemoveLast(reads)
    /\ LET p == reads[Len(reads)]
           b == bufPush(buf, p.val)
       IN  IF p.st = "rejected" THEN Throw(SocketError) /\ buf' = buf
           ELSE /\ buf' = b
                /\ IF Len(p.val) = 0 /\ b.length = 0
                   THEN pc' = "finally" /\ exc' = exc
                   ELSE IF Len(p.val) = 0
                   THEN Throw(HTTPError(400, <<"U", "n", "e", "x", "p", "e", "c", "t", "e", "d", " ", "E", "O", "F", ".">>))
                   ELSE pc' = "loop" /\ exc' = exc
    /\ UNCHANGED <<envVars, connErr, ended, reader, paused, wrVars, destroyed,
                   crashed, mode, msg, reqBody, resp, caller, rv, last, histVars,
                   runVars>>

\* writeHTTPResp after `await soWrite(conn, encodeHTTPResp(resp))`
WrittenHead ==
    /\ Live /\ pc = "awaitWrHead" /\ Settled(writes)
    /\ writes' = RemoveLast(writes)
    /\ IF writes[Len(writes)].st = "rejected" THEN Throw(SocketError)
       ELSE pc' = "read" /\ exc' = exc
    /\ UNCHANGED <<envVars, connVars, wrote, destroyed, crashed, mode, buf, msg,
                   reqBody, resp, caller, rv, last, histVars, runVars>>

\* readerFromMemory(data).read()
ReadMemory ==
    /\ Live /\ pc = "read" /\ CurReader = "mem"
    /\ rv' = IF resp.done THEN <<>> ELSE resp.data
    /\ resp' = [resp EXCEPT !.done = TRUE]
    /\ pc' = "gotData"
    /\ UNCHANGED <<envVars, connVars, wrVars, destroyed, crashed, mode, buf, msg,
                   reqBody, caller, last, exc, histVars, runVars>>

\* readerFromGenerator(countSheep()).read(): the timer, then the next buffer
ReadSheep ==
    /\ Live /\ pc = "read" /\ CurReader = "sheep"
    /\ IF resp.i < kSheepCount
       THEN /\ rv' = NumToString(resp.i, 10) \o <<LF>>
            /\ resp' = [resp EXCEPT !.i = @ + 1]
       ELSE rv' = <<>> /\ resp' = resp
    /\ pc' = "gotData"
    /\ UNCHANGED <<envVars, connVars, wrVars, destroyed, crashed, mode, buf, msg,
                   reqBody, caller, last, exc, histVars, runVars>>

\* a faulty readerFromConnLength: read() returns all the buffer holds
consumeAll(b) ==
    LET consume == b.length
    IN  /\ reqBody' = [reqBody EXCEPT !.remain = @ - consume]
        /\ buf' = bufPop(b, consume)
        /\ ReturnReq(Slice(b.data, 0, consume))

\* readerFromConnLength: what read() does once the buffer b holds data
consumeLength(b) ==
    LET consume == Min(b.length, reqBody.remain)
    IN  /\ reqBody' = [reqBody EXCEPT !.remain = @ - consume]
        /\ buf' = bufPop(b, consume)
        /\ ReturnReq(Slice(b.data, 0, consume))

\* readerFromConnLength(conn, buf, remain).read() up to its await or return
ReadLength ==
    /\ Live /\ pc = "read" /\ CurReader = "req" /\ reqBody.kind = "length"
    /\ IF reqBody.remain = 0
       THEN /\ ReturnReq(<<>>)
            /\ UNCHANGED <<connVars, buf, reqBody>>
       ELSE IF buf.length = 0
       THEN /\ soRead
            /\ pc' = "awaitBody"
            /\ UNCHANGED <<connErr, ended, buf, reqBody, rv, delivered, bodyEnded>>
       ELSE /\ consumeLength(buf)
            /\ UNCHANGED connVars
    /\ UNCHANGED <<envVars, wrVars, destroyed, crashed, mode, msg, resp, caller,
                   last, exc, framed, out, answered, runVars>>

\* a faulty readerFromConnLength: the end of the stream ends the body
LengthGotDataEOFEmpty ==
    /\ Live /\ pc = "awaitBody" /\ reqBody.kind = "length" /\ Settled(reads)
    /\ reads' = RemoveLast(reads)
    /\ LET p == reads[Len(reads)]
           b == bufPush(buf, p.val)
       IN  IF p.st = "rejected"
           THEN /\ Throw(SocketError)
                /\ UNCHANGED <<buf, reqBody, rv, delivered, bodyEnded>>
           ELSE IF Len(p.val) = 0
           THEN /\ ReturnReq(<<>>)
                /\ buf' = b /\ exc' = exc
                /\ UNCHANGED reqBody
           ELSE consumeLength(b) /\ exc' = exc
    /\ UNCHANGED <<envVars, connErr, ended, reader, paused, wrVars, destroyed,
                   crashed, mode, msg, resp, caller, last, framed, out,
                   answered, runVars>>

\* readerFromConnLength(...).read() after `await soRead(conn)`
LengthGotData ==
    /\ Live /\ pc = "awaitBody" /\ reqBody.kind = "length" /\ Settled(reads)
    /\ reads' = RemoveLast(reads)
    /\ LET p == reads[Len(reads)]
           b == bufPush(buf, p.val)
       IN  IF p.st = "rejected"
           THEN /\ Throw(SocketError)
                /\ UNCHANGED <<buf, reqBody, rv, delivered, bodyEnded>>
           ELSE IF Len(p.val) = 0
           THEN /\ Throw(PlainError(<<"U", "n", "e", "x", "p", "e", "c", "t", "e", "d", " ", "E", "O", "F", " ", "f", "r", "o", "m", " ", "H", "T", "T", "P", " ", "b", "o", "d", "y">>))
                /\ buf' = b
                /\ UNCHANGED <<reqBody, rv, delivered, bodyEnded>>
           ELSE consumeLength(b) /\ exc' = exc
    /\ UNCHANGED <<envVars, connErr, ended, reader, paused, wrVars, destroyed,
                   crashed, mode, msg, resp, caller, last, framed, out,
                   answered, runVars>>

\* readerFromConnEOF(conn, buf).read() up to its await or return
ReadEOF ==
    /\ Live /\ pc = "read" /\ CurReader = "req" /\ reqBody.kind = "eof"
    /\ IF buf.length > 0
       THEN /\ ReturnReq(Bytes(buf))
            /\ buf' = bufPop(buf, buf.length)
            /\ UNCHANGED connVars
       ELSE /\ soRead
            /\ pc' = "awaitBody"
            /\ UNCHANGED <<connErr, ended, buf, rv, delivered, bodyEnded>>
    /\ UNCHANGED <<envVars, wrVars, destroyed, crashed, mode, msg, reqBody, resp,
                   caller, last, exc, framed, out, answered, runVars>>

\* readerFromConnEOF(...).read() after `await soRead(conn)`
EOFGotData ==
    /\ Live /\ pc = "awaitBody" /\ reqBody.kind = "eof" /\ Settled(reads)
    /\ reads' = RemoveLast(reads)
    /\ IF reads[Len(reads)].st = "rejected"
       THEN Throw(SocketError) /\ UNCHANGED <<rv, delivered, bodyEnded>>
       ELSE ReturnReq(reads[Len(reads)].val) /\ exc' = exc
    /\ UNCHANGED <<envVars, connErr, ended, reader, paused, wrVars, destroyed,
                   crashed, mode, buf, msg, reqBody, resp, caller, last, framed,
                   out, answered, runVars>>

\* readChunks, top of the loop: the chunk-size line
ChunkSize ==
    /\ Live /\ pc = "read" /\ CurReader = "req" /\ reqBody.kind = "chunks"
    /\ reqBody.gpc = "size"
    /\ LET idx == IndexOf(Bytes(buf), CRLF, 0)
           chunkSize == Slice(buf.data, 0, idx)
           remain == parseInt(chunkSize, 16)
       IN  IF idx < 0
           THEN IF buf.length > 32
                THEN /\ Throw(HTTPError(400, <<"e", "x", "p", "e", "c", "t", " ", "c", "h", "u", "n", "k", "-", "s", "i", "z", "e">>))
                     /\ UNCHANGED <<connVars, buf, reqBody>>
                ELSE /\ soRead
                     /\ pc' = "awaitBody"
                     /\ UNCHANGED <<connErr, ended, buf, reqBody, exc>>
           ELSE IF ~isHex(chunkSize)
           THEN /\ Throw(HTTPError(400, <<"e", "x", "p", "e", "c", "t", " ", "h", "e", "x", " ", "d", "i", "g", "i", "t", "s">>))
                /\ UNCHANGED <<connVars, buf, reqBody>>
           ELSE /\ buf' = bufPop(buf, Len(chunkSize) + 2)
                /\ reqBody' = [reqBody EXCEPT !.cremain = remain,
                                              !.glast = (remain = 0),
                                              !.gpc = "data"]
                /\ pc' = "read"
                /\ UNCHANGED <<connVars, exc>>
    /\ UNCHANGED <<envVars, wrVars, destroyed, crashed, mode, msg, resp, caller,
                   rv, last, histVars, runVars>>

\* readChunks: `while (remain > 0)`, up to the yield, the await or the exit
ChunkData ==
    /\ Live /\ pc = "read" /\ CurReader = "req" /\ reqBody.kind = "chunks"
    /\ reqBody.gpc = "data"
    /\ IF ~(reqBody.cremain > 0)
       THEN /\ reqBody' = [reqBody EXCEPT !.gpc = "crlf"]
            /\ pc' = "read"
            /\ UNCHANGED <<connVars, buf, rv, delivered, bodyEnded>>
       ELSE IF buf.length = 0
       THEN /\ soRead
            /\ pc' = "awaitBody"
            /\ UNCHANGED <<connErr, ended, buf, reqBody, rv, delivered, bodyEnded>>
       ELSE LET consume == Min(reqBody.cremain, buf.length)
            IN  /\ buf' = bufPop(buf, consume)
                /\ reqBody' = [reqBody EXCEPT !.cremain = @ - consume]
                /\ ReturnReq(Slice(buf.data, 0, consume))
                /\ UNCHANGED connVars
    /\ UNCHANGED <<envVars, wrVars, destroyed, crashed, mode, msg, resp, caller,
                   last, exc, framed, out, answered, runVars>>

\* readChunks: the CRLF after the chunk data, then the next chunk or the end
ChunkCRLF ==
    /\ Live /\ pc = "read" /\ CurReader = "req" /\ reqBody.kind = "chunks"
    /\ reqBody.gpc = "crlf"
    /\ IF buf.length < 2
       THEN /\ soRead
            /\ pc' = "awaitBody"
            /\ UNCHANGED <<connErr, ended, buf, reqBody, rv, exc, delivered,
                           bodyEnded>>
       ELSE IF Slice(buf.data, 0, 2) # CRLF
       THEN /\ Throw(HTTPError(400, <<"e", "x", "p", "e", "c", "t", " ", "C", "R", "L", "F">>))
            /\ UNCHANGED <<connVars, buf, reqBody, rv, delivered, bodyEnded>>
       ELSE /\ buf' = bufPop(buf, 2)
            /\ exc' = exc
            /\ UNCHANGED connVars
            /\ IF reqBody.glast
               THEN /\ reqBody' = [reqBody EXCEPT !.gpc = "done"]
                    /\ ReturnReq(<<>>)
               ELSE /\ reqBody' = [reqBody EXCEPT !.gpc = "size"]
                    /\ pc' = "read"
                    /\ UNCHANGED <<rv, delivered, bodyEnded>>
    /\ UNCHANGED <<envVars, wrVars, destroyed, crashed, mode, msg, resp, caller,
                   last, framed, out, answered, runVars>>

\* readerFromGenerator(gen).read() once the generator has returned
ChunkDone ==
    /\ Live /\ pc = "read" /\ CurReader = "req" /\ reqBody.kind = "chunks"
    /\ reqBody.gpc = "done"
    /\ ReturnReq(<<>>)
    /\ UNCHANGED <<envVars, connVars, wrVars, destroyed, crashed, mode, buf, msg,
                   reqBody, resp, caller, last, exc, framed, out,
                   answered, runVars>>

\* the where argument of bufExpectMore at each position of readChunks
chunkWhere(gpc) ==
    IF gpc = "size" THEN <<"c", "h", "u", "n", "k", "-", "s", "i", "z", "e">>
    ELSE IF gpc = "data" THEN <<"c", "h", "u", "n", "k", " ", "d", "a", "t", "a">>
    ELSE <<"c", "h", "u", "n", "k", " ", "C", "R", "L", "F">>

\* bufExpectMore(conn, buf, where) after `await soRead(conn)`; readChunks
\* then goes on from where it called
ChunkGotData ==
    /\ Live /\ pc = "awaitBody" /\ reqBody.kind = "chunks" /\ Settled(reads)
    /\ reads' = RemoveLast(reads)
    /\ LET p == reads[Len(reads)]
       IN  IF p.st = "rejected" THEN Throw(SocketError) /\ buf' = buf
           ELSE /\ buf' = bufPush(buf, p.val)
                /\ IF Len(p.val) = 0
                   THEN Throw(HTTPError(400, <<"U", "n", "e", "x", "p", "e", "c", "t", "e", "d", " ", "E", "O", "F", " ", "i", "n", " ">>
                                               \o chunkWhere(reqBody.gpc)))
                   ELSE pc' = "read" /\ exc' = exc
    /\ UNCHANGED <<envVars, connErr, ended, reader, paused, wrVars, destroyed,
                   crashed, mode, msg, reqBody, resp, caller, rv, last, histVars,
                   runVars>>

\* writeHTTPResp after `await resp.body.read()`: the unit is encoded and
\* written, or the loop ends
RespData ==
    /\ Live /\ pc = "gotData" /\ caller = "write"
    /\ last' = (Len(rv) = 0)
    /\ LET data == encodeBodyData(resp.length, rv)
       IN  IF Len(data) > 0
           THEN /\ soWrite(data)
                /\ pc' = "awaitWrBody"
                /\ out' = [out EXCEPT ![Len(out)].body = @ \o rv]
                /\ UNCHANGED <<caller, answered>>
           ELSE /\ AfterResp
                /\ UNCHANGED <<wrVars, out>>
    /\ UNCHANGED <<envVars, connVars, destroyed, crashed, mode, buf, msg, reqBody,
                   resp, rv, exc, framed, delivered, bodyEnded, runVars>>

\* writeHTTPResp after `await soWrite(conn, data)`
WrittenBody ==
    /\ Live /\ pc = "awaitWrBody" /\ Settled(writes)
    /\ writes' = RemoveLast(writes)
    /\ IF writes[Len(writes)].st = "rejected"
       THEN Throw(SocketError) /\ UNCHANGED <<caller, answered>>
       ELSE IF last THEN AfterResp /\ exc' = exc
       ELSE pc' = "read" /\ UNCHANGED <<caller, answered, exc>>
    /\ UNCHANGED <<envVars, connVars, wrote, destroyed, crashed, mode, buf, msg,
                   reqBody, resp, rv, last, framed, delivered, bodyEnded, out, runVars>>

\* a faulty serveClient: the body is read once, not until it ends
DrainOnce ==
    /\ Live /\ pc = "gotData" /\ caller = "drain"
    /\ pc' = "loop"
    /\ UNCHANGED <<envVars, connVars, wrVars, destroyed, crashed, mode, buf, msg,
                   reqBody, resp, caller, rv, last, exc, histVars, runVars>>

\* serveClient: `while ((await reqBody.read()).length > 0)`
DrainData ==
    /\ Live /\ pc = "gotData" /\ caller = "drain"
    /\ pc' = IF Len(rv) > 0 THEN "read" ELSE "loop"
    /\ UNCHANGED <<envVars, connVars, wrVars, destroyed, crashed, mode, buf, msg,
                   reqBody, resp, caller, rv, last, exc, histVars, runVars>>

\* a faulty newConn: every error response has status 400
CatchBadRequest ==
    /\ Live /\ pc = "catch"
    /\ IF exc.kind = "HTTPError"
       THEN /\ mode' = "error"
            /\ caller' = "write"
            /\ BeginResp(errorResp(HTTPError(400, exc.msg)))
       ELSE /\ pc' = "finally"
            /\ UNCHANGED <<mode, caller, resp, wrVars, out>>
    /\ UNCHANGED <<envVars, connVars, destroyed, crashed, buf, msg, reqBody, rv,
                   last, exc, framed, delivered, bodyEnded, answered,
                   runVars>>

\* newConn's catch block
Catch ==
    /\ Live /\ pc = "catch"
    /\ IF exc.kind = "HTTPError"
       THEN /\ mode' = "error"
            /\ caller' = "write"
            /\ BeginResp(errorResp(exc))
       ELSE /\ pc' = "finally"
            /\ UNCHANGED <<mode, caller, resp, wrVars, out>>
    /\ UNCHANGED <<envVars, connVars, destroyed, crashed, buf, msg, reqBody, rv,
                   last, exc, framed, delivered, bodyEnded, answered,
                   runVars>>

\* newConn's finally block
Finally ==
    /\ Live /\ pc = "finally"
    /\ destroyed' = TRUE
    /\ pc' = "closed"
    /\ UNCHANGED <<envVars, connVars, wrVars, crashed, mode, buf, msg, reqBody,
                   resp, caller, rv, last, exc, histVars, runVars>>

(***************************************************************************)
(* Specifications                                                          *)
(***************************************************************************)
Server ==
    \/ ServeLoopThrow \/ ServeLoopMore \/ ServeLoopNoReader \/ ServeLoopRequest
    \/ ServeHead \/ WrittenHead
    \/ ReadMemory \/ ReadSheep \/ ReadLength \/ LengthGotData
    \/ ReadEOF \/ EOFGotData
    \/ ChunkSize \/ ChunkData \/ ChunkCRLF \/ ChunkDone \/ ChunkGotData
    \/ RespData \/ WrittenBody \/ DrainData \/ Catch \/ Finally

Delivery == OnData \/ OnEnd \/ OnWritten

\* one connection of the HTTP server
Next == Server \/ Delivery \/ SockFail \/ OnError

Spec == Init /\ [][Next]_vars

(***************************************************************************)
(* Two deliveries of one stream; the socket wrapper under any caller       *)
(***************************************************************************)
\* server.on("connection", newConn) once more: the connection is over, and the
\* client sends the same stream on a new one, which the transport may split
\* differently
Restart ==
    /\ pc = "closed" /\ run = 1
    /\ run' = 2 /\ ref' = Outcome
    /\ pos' = 0 /\ sockDead' = FALSE
    /\ connErr' = NoErr /\ ended' = FALSE /\ reader' = 0 /\ paused' = TRUE
    /\ reads' = <<>> /\ writes' = <<>> /\ wrote' = <<>>
    /\ destroyed' = FALSE /\ crashed' = FALSE
    /\ pc' = "loop" /\ mode' = "serve" /\ buf' = EmptyBuf /\ msg' = NoReq
    /\ reqBody' = NoReader /\ resp' = NoRes /\ caller' = "write" /\ rv' = <<>>
    /\ last' = FALSE /\ exc' = NoErr
    /\ framed' = <<>> /\ delivered' = <<>> /\ bodyEnded' = FALSE
    /\ out' = <<>> /\ answered' = 0
    /\ UNCHANGED <<sid, units, popped>>

\* the HTTP server on a socket that does not fail, for one stream delivered
\* twice
NextSeg == Server \/ Delivery \/ Restart

SpecSeg == Init /\ [][NextSeg]_vars

\* the largest number of soRead calls, and of soWrite calls, of a caller of
\* the socket wrapper
MaxCalls == 3

\* some caller calls soRead(conn), whatever the state of earlier calls
ApiRead ==
    /\ Live /\ Len(reads) < MaxCalls
    /\ soRead
    /\ UNCHANGED <<envVars, connErr, ended, wrVars, destroyed, crashed,
                   procVars, histVars, runVars>>

\* some caller calls soWrite(conn, data)
ApiWrite ==
    /\ Live /\ Len(writes) < MaxCalls
    /\ soWrite(<<"x">>)
    /\ UNCHANGED <<envVars, connVars, destroyed, crashed, procVars, histVars,
                   runVars>>

\* some caller calls socket.destroy(): the socket emits 'close' and none of
\* 'data', 'end' and 'error' from then on
ApiDestroy ==
    /\ Live
    /\ destroyed' = TRUE
    /\ UNCHANGED <<envVars, connVars, wrVars, crashed, procVars, histVars,
                   runVars>>

\* the callback of a socket.write that the destroyed socket gave up runs,
\* with an error
OnWriteAborted ==
    /\ destroyed
    /\ \E i \in 1..Len(writes) :
          /\ writes[i].st = "pending"
          /\ \A j \in 1..(i - 1) : writes[j].st # "pending"
          /\ writes' = [writes EXCEPT ![i] = Rejected]
    /\ UNCHANGED <<envVars, connVars, wrote, destroyed, crashed, procVars,
                   histVars, runVars>>

\* the TCPConn of soInit under an arbitrary caller
NextConn ==
    \/ ApiRead \/ ApiWrite \/ ApiDestroy
    \/ Delivery \/ SockFail \/ OnError \/ OnWriteAborted

\* the connections of the scripts on which the socket may fail
InitConn == Init /\ Scripts[sid].fail

SpecConn == InitConn /\ [][NextConn]_vars

(***************************************************************************)
(* Stream offsets                                                          *)
(***************************************************************************)
\* the stream offset just after the k-th request of the script
PartEnd(k) ==
    Len(Concat([i \in 1..k |-> PartBytes(Scripts[sid].parts[i], units)]))

\* the stream offset just after the head of the k-th request
HeadEndOf(k) == PartEnd(k - 1) + Len(HeadBytes(Scripts[sid].parts[k], units))

\* the bytes of a resolved read the server has not yet taken
InFlight ==
    IF Len(reads) > 0 /\ reads[Len(reads)].st = "resolved"
    THEN Len(reads[Len(reads)].val) ELSE 0

\* the stream offset of the first byte of buf
Consumed == pos - InFlight - buf.length

(***************************************************************************)
(* Properties                                                              *)
(***************************************************************************)
\* C1: segmentation independence.  For one byte stream, the requests framed,
\* the body bytes each reader delivered, the responses and the error are the
\* same however the stream is split into data events: a second delivery of
\* the stream ends as the first did.
SegmentationIndependence == (run = 2 /\ pc = "closed") => Outcome = ref

\* a request written out as a head: the request line, the header lines in
\* order, the empty line
Render(req) ==
    req.method \o <<" ">> \o req.uri \o <<" ", "H", "T", "T", "P", "/">> \o req.version \o CRLF
        \o Concat([i \in 1..Len(req.headers) |-> req.headers[i] \o CRLF])
        \o CRLF

\* cutMessage on the DynBuf b does what C2 says
HeadFramingAt(b) ==
    LET bytes == Bytes(b)
        idx == IndexOf(bytes, CRLFCRLF, 0)
        r == cutMessage(b)
    IN  /\ (idx < 0 /\ b.length < 8192) =>
              (r.err = NoErr /\ ~r.has /\ r.buf = b)
        /\ (idx >= 0 /\ r.err = NoErr) =>
              /\ r.has
              /\ Render(r.msg) = SubSeq(bytes, 1, idx + 4)
              /\ Bytes(r.buf) = SubSeq(bytes, idx + 5, Len(bytes))
              /\ r.buf.length = b.length - (idx + 4)

\* the buffer as it was when it held only its first n bytes, the storage
\* beyond them holding other bytes
BufPrefix(n) == [data |-> buf.data, length |-> n]

\* C2: head framing.  While the buffer holds no CRLF CRLF and fewer than 8192
\* bytes, cutMessage returns null and leaves the buffer unchanged; once the
\* buffer holds the terminator of a valid head, cutMessage returns the
\* request whose method, uri, version and header lines in order are those of
\* the head, and removes exactly the head through its CRLF CRLF from the
\* front of the buffer, the following bytes now starting at offset 0.  This
\* holds for the buffer at every call of cutMessage and, for buffers of up
\* to 128 bytes, for each of its prefixes.
HeadFraming ==
    pc = "loop" =>
        /\ HeadFramingAt(buf)
        /\ buf.length <= 128 =>
              \A n \in 0..buf.length : HeadFramingAt(BufPrefix(n))

\* a head is framed while bytes of the next request follow it in the buffer,
\* after cutMessage returned null for a prefix of that head
HeadFramingWitness ==
    /\ pc = "loop" /\ Len(framed) = 1 /\ sid = 1
    /\ cutMessage(buf).has
    /\ cutMessage(buf).buf.length > 0
    /\ cutMessage(buf).msg.version = <<"1", ".", "0">>

\* C3: drain before the next request.  On a connection that stays open, when
\* the loop is back at cutMessage after a request, that request's body reader
\* has returned an empty buffer and the buffer starts at the first byte after
\* that request's body, whether or not the handler read the body.
DrainBeforeNext ==
    (pc = "loop" /\ Len(framed) > 0) =>
        /\ bodyEnded
        /\ Consumed = PartEnd(Len(framed))

\* back at cutMessage after a chunked body that the handler ignored, with
\* bytes of the next request in the buffer
DrainBeforeNextWitness ==
    /\ pc = "loop" /\ sid = 5 /\ Len(framed) = 1
    /\ out[1].body = <<"h", "e", "l", "l", "o", " ", "w", "o", "r", "l", "d", ".", "\n">>
    /\ buf.length > 0

\* C4: single outstanding read.  A connection never has more than one
\* pending read: soRead called while an earlier soRead is unresolved does not
\* replace conn.reader and does not leave the earlier promise without its
\* callbacks.
SingleOutstandingRead ==
    /\ Cardinality({i \in 1..Len(reads) : reads[i].st = "pending"}) <= 1
    /\ \A i \in 1..Len(reads) : reads[i].st = "pending" => reader = i

\* C5: backpressure.  A data event pauses the socket, and only a soRead call
\* that registers a pending reader resumes it; so in the HTTP server a data
\* event arrives only while conn.reader is set, and it resolves exactly that
\* pending read with exactly the bytes delivered.
Backpressure ==
    [][/\ pos' # pos =>
            /\ reader # 0 /\ reads[reader].st = "pending"
            /\ reads' = [reads EXCEPT ![reader] =
                            Resolved(SubSeq(TheStream, pos + 1, pos'))]
            /\ reader' = 0
            /\ paused'
       /\ (paused /\ ~paused') =>
            /\ Len(reads') = Len(reads) + 1
            /\ reader' = Len(reads')
            /\ reads'[reader'].st = "pending"
       /\ (~paused' /\ ~ended' /\ ~sockDead') => reader' # 0
       /\ ~crashed']_vars

\* a data event has resolved the pending read and paused the socket
BackpressureWitness ==
    /\ pos > 0 /\ paused /\ reader = 0
    /\ Len(reads) = 1 /\ reads[1].st = "resolved" /\ Len(reads[1].val) > 0
    /\ pc = "awaitBody"

\* C6: bounded buffering.  Whatever the size of the request, the buffer
\* holds fewer unconsumed bytes than 8192 plus the largest single socket
\* read; the head framer, the body readers and the chunked decoder read from
\* the socket only when the buffer cannot satisfy their current step.
BoundedBuffering ==
    /\ buf.length < 8192 + MaxRead
    /\ pc = "awaitHead" =>
          (IndexOf(Bytes(buf), CRLFCRLF, 0) < 0 /\ buf.length < 8192)
    /\ (pc = "awaitBody" /\ reqBody.kind \in {"length", "eof"}) =>
          buf.length = 0
    /\ (pc = "awaitBody" /\ reqBody.kind = "chunks") =>
          CASE reqBody.gpc = "size" ->
                   IndexOf(Bytes(buf), CRLF, 0) < 0 /\ buf.length <= 32
            [] reqBody.gpc = "data" -> buf.length = 0
            [] reqBody.gpc = "crlf" -> buf.length < 2
            [] OTHER -> FALSE

\* the buffer holds 8192 bytes or more
BoundedBufferingWitness == buf.length >= 8192 /\ pc = "loop"

\* C7: chunked round trip.  A payload of any units, chunk-encoded as
\* writeHTTPResp encodes it and fed through readChunks under any
\* segmentation, is decoded without error to exactly the payload followed by
\* the end of the body, and the decoder consumes exactly the encoded bytes,
\* through the final 0 CRLF CRLF.
ChunkedRoundTrip ==
    (HasEnc(sid) /\ Len(framed) > 0) =>
        LET payload == Concat(units)
        IN  /\ exc = NoErr
            /\ Len(delivered[1]) <= Len(payload)
            /\ delivered[1] = SubSeq(payload, 1, Len(delivered[1]))
            /\ (Len(framed) = 1 /\ bodyEnded) =>
                  (delivered[1] = payload /\ Consumed = PartEnd(1))
            /\ Len(framed) > 1 => delivered[1] = payload
            /\ pc = "closed" =>
                  (Len(framed) = 2 /\ out[1].body = payload)

\* a payload of two units has been decoded and the decoder has returned the
\* end of the body, with bytes of the next request already in the buffer
ChunkedRoundTripWitness ==
    /\ HasEnc(sid) /\ Len(units) = 2 /\ Len(framed) = 1 /\ bodyEnded
    /\ delivered[1] = Concat(units)
    /\ buf.length > 0

\* the reader of the latest request is a readerFromConnLength
LengthReader ==
    /\ Len(framed) > 0
    /\ readerFromReq(msg).err = NoErr
    /\ reqBody.kind = "length"

\* C8: length-bounded body reader.  For a request with Content-Length N, the
\* results of the read() calls so far are, concatenated, the first
\* N - remain bytes after the head, and the buffer starts at the byte after
\* them: at the end of the body that is exactly N bytes, the bytes beyond
\* the N-th still unconsumed.  A read() at remain = 0 returns an empty buffer
\* and calls no soRead.
LengthBoundedReader ==
    LengthReader =>
        LET k == Len(framed)
            N == reqBody.length
            got == N - reqBody.remain
        IN  /\ 0 <= got /\ got <= N
            /\ delivered[k] = SubSeq(TheStream, HeadEndOf(k) + 1, HeadEndOf(k) + got)
            /\ Consumed = HeadEndOf(k) + got
            /\ bodyEnded => got = N
            /\ pc = "awaitBody" => (reqBody.remain > 0 /\ buf.length = 0)
            /\ (pc = "gotData" /\ Len(rv) = 0 /\ CurReader = "req") => got = N

\* a body of 5 bytes was returned by more than one read(), the end of the
\* body has been returned, and bytes of the next request are in the buffer
LengthBoundedReaderWitness ==
    /\ LengthReader /\ sid = 2 /\ Len(framed) = 1
    /\ bodyEnded /\ delivered[1] = <<"h", "e", "l", "l", "o">>
    /\ Len(out[1].body) = 5
    /\ buf.length > 0
    /\ pc = "gotData" /\ Len(rv) = 0

\* new Error("Unexpected EOF from HTTP body")
UnexpectedBodyEOF == PlainError(<<"U", "n", "e", "x", "p", "e", "c", "t", "e", "d", " ", "E", "O", "F", " ", "f", "r", "o", "m", " ", "H", "T", "T", "P", " ", "b", "o", "d", "y">>)

\* C9: early end of body.  When the read a length-bounded reader awaits
\* resolves with the end of the stream, read() throws the unexpected-EOF
\* error instead of returning an empty buffer; no error response is written
\* for it, no further request is framed, and the socket is destroyed.
EarlyEndOfBody ==
    [][/\ (/\ pc = "awaitBody" /\ reqBody.kind = "length" /\ mode = "serve"
           /\ Settled(reads) /\ reads[Len(reads)] = Resolved(<<>>)
           /\ pc' # pc) =>
              /\ reqBody.remain > 0 /\ buf.length = 0
              /\ pc' = "catch" /\ exc' = UnexpectedBodyEOF
              /\ delivered' = delivered /\ bodyEnded' = bodyEnded
       /\ exc = UnexpectedBodyEOF =>
              /\ framed' = framed /\ out' = out
              /\ pc \in {"catch", "finally", "closed"}
              /\ (pc = "catch" /\ pc' # pc) => pc' = "finally"
              /\ (pc = "finally" /\ pc' # pc) =>
                    (pc' = "closed" /\ destroyed')]_vars

\* the body ended after 3 of its 5 bytes and the connection is closed
EarlyEndOfBodyWitness ==
    /\ exc = UnexpectedBodyEOF /\ pc = "closed" /\ destroyed
    /\ Len(framed) = 1 /\ delivered[1] = <<"h", "e", "l">> /\ ~bodyEnded
    /\ Len(out) = 1

\* C10: connection persistence.  Once the response to a request is written
\* completely, serveClient returns and the socket is destroyed if the
\* request's version is 1.0; otherwise it drains the body and goes back to
\* framing the next request.  No request is framed after a version-1.0
\* request.
ConnectionPersistence ==
    [][/\ answered' # answered =>
            IF msg.version = <<"1", ".", "0">>
            THEN pc' = "finally"
            ELSE pc' = "read" /\ caller' = "drain"
       /\ (pc = "gotData" /\ caller = "drain" /\ Len(rv) = 0 /\ pc' # pc) =>
            (pc' = "loop" /\ msg.version # <<"1", ".", "0">>)
       /\ (pc = "finally" /\ pc' # pc) => (pc' = "closed" /\ destroyed')
       /\ framed' # framed =>
            \A k \in 1..Len(framed) : framed[k].version # <<"1", ".", "0">>]_vars

\* the HTTP/1.0 request was answered second and the connection closed with
\* the bytes of a third request never framed
ConnectionPersistenceWitness ==
    /\ sid = 1 /\ pc = "closed" /\ destroyed
    /\ Len(framed) = 2 /\ answered = 2
    /\ framed[1].version = <<"1", ".", "1">> /\ framed[2].version = <<"1", ".", "0">>
    /\ exc = NoErr

\* the reads of the connection that are pending
PendingReads == {i \in 1..Len(reads) : reads[i].st = "pending"}

\* C11: a transport error is sticky.  The 'error' event rejects the in-flight
\* read, if any (the read whose callbacks conn.reader holds: when no other
\* read is pending, none is pending afterwards), and after it every soRead
\* and every soWrite on the connection is rejected, whatever data and end
\* events came before.
TransportErrorSticky ==
    [][/\ (connErr = NoErr /\ connErr' # NoErr) =>
            /\ reader # 0 => reads'[reader] = Rejected
            /\ reader' = 0
            /\ (\A i \in PendingReads : reader = i) =>
                  \A i \in 1..Len(reads') : reads'[i].st # "pending"
       /\ connErr # NoErr =>
            /\ connErr' = connErr
            /\ Len(reads') > Len(reads) =>
                  (reads'[Len(reads')] = Rejected /\ reader' = reader)
            /\ Len(writes') > Len(writes) =>
                  (writes'[Len(writes')] = Rejected /\ wrote' = wrote)]_vars

\* after data and the end of the stream, an 'error' event rejected nothing
\* in flight, and the soRead and the soWrite called after it were rejected
TransportErrorStickyWitness ==
    /\ connErr # NoErr /\ ended /\ pos > 0
    /\ Len(reads) = 3 /\ reads[2] = Resolved(<<>>) /\ reads[3] = Rejected
    /\ Len(writes) = 1 /\ writes[1] = Rejected

\* C12 as stated: end of stream is permanent.  The 'end' event resolves the
\* in-flight read, if any, with an empty buffer, and from then on every
\* soRead resolves with an empty buffer, whatever events occur afterwards.
EndOfStreamPermanent ==
    [][/\ (~ended /\ ended') =>
            (reader # 0 => reads'[reader] = Resolved(<<>>))
       /\ (\E i \in PendingReads : reads'[i] = Resolved(<<>>)) => ended'
       /\ ended =>
            /\ ended'
            /\ Len(reads') > Len(reads) =>
                  reads'[Len(reads')] = Resolved(<<>>)]_vars

\* C12, amended: the 'end' event resolves the in-flight read, if any, with
\* an empty buffer; conn.ended then stays set, no read is pending again, and
\* every later soRead resolves with an empty buffer unless an 'error' event
\* has occurred on the connection, in which case it is rejected.
EndOfStreamUnlessError ==
    [][/\ (~ended /\ ended') =>
            /\ reader # 0 => reads'[reader] = Resolved(<<>>)
            /\ reader' = 0
       /\ (\E i \in PendingReads : reads'[i] = Resolved(<<>>)) => ended'
       /\ ended =>
            /\ ended' /\ reader' = 0
            /\ Len(reads') > Len(reads) =>
                  reads'[Len(reads')] =
                      IF connErr = NoErr THEN Resolved(<<>>) ELSE Rejected]_vars

\* the 'end' event resolved the in-flight read with an empty buffer, and the
\* soRead called after it resolved with an empty buffer
EndOfStreamWitness ==
    /\ ended /\ connErr = NoErr
    /\ Len(reads) = 3 /\ reads[2] = Resolved(<<>>) /\ reads[3] = Resolved(<<>>)

\* C13: cancellation.  When the socket is destroyed while a soRead or a
\* soWrite is outstanding, that operation fails at once: no promise of the
\* connection is pending once the socket is destroyed.
Cancellation ==
    destroyed =>
        /\ \A i \in 1..Len(reads) : reads[i].st # "pending"
        /\ \A i \in 1..Len(writes) : writes[i].st # "pending"

\* C13, the reads alone: they are what soInit decides, having no handler for
\* the socket's 'close' event
CancellationOfReads ==
    destroyed => \A i \in 1..Len(reads) : reads[i].st # "pending"

\* C14: error response, then close.  When an HTTPError raised while framing
\* a request, building its body reader or draining its body reaches newConn,
\* one response is begun whose status code is the error's; from then on no
\* request is framed, no other response is begun, a failure of the write is
\* not handled again but leads to the finally block, and the connection ends
\* with the socket destroyed.
ErrorResponseThenClose ==
    [][/\ (pc = "catch" /\ exc.kind = "HTTPError" /\ pc' # pc) =>
            /\ mode = "serve" /\ mode' = "error"
            /\ pc' = "awaitWrHead"
            /\ out' = Append(out, [code |-> exc.code, body |-> <<>>])
            /\ Len(writes') = Len(writes) + 1
       /\ mode = "error" =>
            /\ mode' = "error" /\ exc' = exc
            /\ framed' = framed /\ answered' = answered
            /\ Len(out') = Len(out)
            /\ out'[Len(out')].code = exc.code
            /\ pc' \in {"awaitWrHead", "read", "gotData", "awaitWrBody",
                        "finally", "closed"}
            /\ (pc \in {"awaitWrHead", "awaitWrBody"} /\ pc' # pc
                  /\ writes[Len(writes)].st = "rejected") => pc' = "finally"
       /\ (pc = "finally" /\ pc' # pc) => (pc' = "closed" /\ destroyed')
       /\ pc = "closed" => pc' = "closed"]_vars

\* the three places an HTTPError is raised in
ErrorWhileFraming == pc = "catch" /\ exc = HTTPError(413, <<"h", "e", "a", "d", "e", "r", " ", "i", "s", " ", "t", "o", "o", " ", "l", "a", "r", "g", "e">>)
ErrorWhileBuilding == pc = "catch" /\ exc = HTTPError(400, <<"H", "T", "T", "P", " ", "b", "o", "d", "y", " ", "n", "o", "t", " ", "a", "l", "l", "o", "w", "e", "d", ".">>)
ErrorWhileDraining == pc = "catch" /\ caller = "drain" /\ exc.kind = "HTTPError"

\* the write of the error response failed, the failure was swallowed and the
\* socket was destroyed: one response head, of the error's status, and no
\* body
ErrorResponseThenCloseWitness ==
    /\ pc = "closed" /\ destroyed /\ mode = "error"
    /\ exc.kind = "HTTPError" /\ connErr # NoErr
    /\ out[Len(out)] = [code |-> exc.code, body |-> <<>>]

\* the bytes hold no CR LF CR LF
NoTerminator(bytes) ==
    \A i \in 1..(Len(bytes) - 3) :
        ~(bytes[i] = CR /\ bytes[i + 1] = LF /\ bytes[i + 2] = CR
            /\ bytes[i + 3] = LF)

\* cutMessage on the DynBuf b does what C15 says
HeaderTooLargeAt(b) ==
    NoTerminator(Bytes(b)) =>
        cutMessage(b) =
            IF b.length >= 8192
            THEN [err |-> HTTPError(413, <<"h", "e", "a", "d", "e", "r", " ", "i", "s", " ", "t", "o", "o", " ", "l", "a", "r", "g", "e">>),
                  has |-> FALSE, msg |-> NoReq, buf |-> b]
            ELSE [err |-> NoErr, has |-> FALSE, msg |-> NoReq, buf |-> b]

\* C15: header too large.  When the unconsumed buffer holds no CR LF CR LF,
\* cutMessage throws HTTPError 413 if and only if the unconsumed length is at
\* least 8192 bytes, and returns null without an error below that.  This
\* holds for the buffer at every call of cutMessage, for its prefixes of
\* 8190 to 8193 bytes, and for every prefix of a buffer of up to 128 bytes.
HeaderTooLarge ==
    pc = "loop" =>
        /\ HeaderTooLargeAt(buf)
        /\ \A n \in 8190..8193 : n <= buf.length => HeaderTooLargeAt(BufPrefix(n))
        /\ buf.length <= 128 =>
              \A n \in 0..buf.length : HeaderTooLargeAt(BufPrefix(n))

\* cutMessage is called on exactly 8192 bytes without a terminator, and
\* throws
HeaderTooLargeWitness ==
    /\ pc = "loop" /\ buf.length = 8192
    /\ NoTerminator(Bytes(buf))
    /\ cutMessage(buf).err = HTTPError(413, <<"h", "e", "a", "d", "e", "r", " ", "i", "s", " ", "t", "o", "o", " ", "l", "a", "r", "g", "e">>)

\* cutMessage is called on 8191 bytes without a terminator, and returns null
HeaderNotYetTooLarge ==
    /\ pc = "loop" /\ buf.length = 8191
    /\ NoTerminator(Bytes(buf))
    /\ cutMessage(buf).err = NoErr /\ ~cutMessage(buf).has

\* C16: maximum head size.  No request whose head, from the request line
\* through the terminating CR LF CR LF, is longer than 8192 bytes is framed,
\* however the bytes of the head are delivered across socket reads.
MaximumHeadSize ==
    \A k \in 1..Len(framed) : Len(Render(framed[k])) <= 8192

\* the line holds a colon at an offset other than 0, and no line feed
ColonNotAtZero(line) ==
    /\ \E i \in 2..Len(line) : line[i] = ":"
    /\ \A i \in 1..Len(line) : line[i] # LF

\* the first colon of the line is at an offset other than 0, and the line
\* holds no line feed
FirstColonNotAtZero(line) ==
    /\ \E i \in 1..Len(line) : line[i] = ":"
    /\ line[1] # ":"
    /\ \A i \in 1..Len(line) : line[i] # LF

\* cutMessage on a buffer that holds one head block whose lines after the
\* request line are the lines sent: every line is accepted if all are
\* Valid, and the request keeps them in their order; otherwise HTTPError 400
\* "bad field" is thrown
FieldValidation(Valid(_)) ==
    (pc = "loop" /\ HasLines(sid) /\ Len(framed) = 0 /\ Bytes(buf) = TheStream) =>
        LET r == cutMessage(buf)
        IN  IF \A i \in 1..Len(units) : Valid(units[i])
            THEN r.err = NoErr /\ r.has /\ r.msg.headers = units
            ELSE r.err = HTTPError(400, <<"b", "a", "d", " ", "f", "i", "e", "l", "d">>) /\ ~r.has

\* C17 as stated: header field validation.  A line between the request
\* line and the trailing empty line is accepted if and only if it holds a
\* colon at a position other than 0 and no line feed; any other line makes
\* framing fail with status 400; the accepted lines keep their order.
HeaderFieldValidation == FieldValidation(ColonNotAtZero)

\* C17, amended: a line is accepted if and only if its first colon is at a
\* position other than 0 (the field name is not empty) and it holds no line
\* feed; any other line makes framing fail with status 400; the accepted
\* lines keep their order.
HeaderFieldFirstColon ==
    /\ FieldValidation(FirstColonNotAtZero)
    /\ \A k \in 1..Len(framed) : \A i \in 1..Len(framed[k].headers) :
          FirstColonNotAtZero(framed[k].headers[i])

\* a valid line followed by the line ":a:b", which holds a colon at offset
\* 2 but begins with one, was refused with status 400
HeaderFieldWitness ==
    /\ pc = "catch" /\ HasLines(sid)
    /\ units = <<<<"H", "o", "s", "t", ":", " ", "X">>, <<":", "a", ":", "b">>>>
    /\ exc = HTTPError(400, <<"b", "a", "d", " ", "f", "i", "e", "l", "d">>)

\* two different valid lines were accepted and are kept in their order
HeaderFieldsInOrder ==
    /\ HasLines(sid) /\ Len(framed) = 1
    /\ units = <<<<"H", "o", "s", "t", ":", " ", "X">>, <<"C", "o", "n", "t", "e", "n", "t", "-", "L", "e", "n", "g", "t", "h", ":", " ", "0">>>>
    /\ framed[1].headers = units

\* the offset of the first colon of a valid header line, counted from 1
FirstColon(line) ==
    CHOOSE i \in 1..Len(line) :
        line[i] = ":" /\ \A k \in 1..(i - 1) : line[k] # ":"

\* [found, value]: the value of the first line whose field name equals the
\* key ignoring case; the value is all bytes after the first colon, without
\* the surrounding whitespace, in their own case
RECURSIVE Lookup(_, _)
Lookup(headers, key) ==
    IF Len(headers) = 0 THEN [found |-> FALSE, value |-> <<>>]
    ELSE LET h == Head(headers)
             c == FirstColon(h)
         IN  IF toLowerCase(SubSeq(h, 1, c - 1)) = toLowerCase(key)
             THEN [found |-> TRUE, value |-> trim(SubSeq(h, c + 1, Len(h)))]
             ELSE Lookup(Tail(headers), key)

\* the keys looked up
LookupKeys == {<<"C", "o", "n", "t", "e", "n", "t", "-", "L", "e", "n", "g", "t", "h">>, <<"T", "r", "a", "n", "s", "f", "e", "r", "-", "E", "n", "c", "o", "d", "i", "n", "g">>, <<"H", "O", "S", "T">>, <<"a">>, <<"b">>}

\* C18: header lookup.  For the header lines of every framed request and
\* every key, fieldGet returns the value of the first line whose field name
\* equals the key ignoring case: all bytes after the first colon, without
\* the surrounding whitespace and in their own case; it returns null when
\* no line matches.
HeaderLookup ==
    \A k \in 1..Len(framed) : \A key \in LookupKeys :
        fieldGet(framed[k].headers, key) = Lookup(framed[k].headers, key)

\* the same, for the lookups in which fieldGet and the header agree on the
\* value: a value without a colon and without an upper-case letter
HeaderLookupPlain ==
    \A k \in 1..Len(framed) : \A key \in LookupKeys :
        LET v == Lookup(framed[k].headers, key)
        IN  (v.value = toLowerCase(v.value) /\ \A i \in 1..Len(v.value) : v.value[i] # ":")
                => fieldGet(framed[k].headers, key) = v

\* the number a string of decimal digits denotes
RECURSIVE DecimalValue(_)
DecimalValue(s) ==
    IF Len(s) = 0 THEN 0
    ELSE 10 * DecimalValue(SubSeq(s, 1, Len(s) - 1))
            + (CHOOSE d \in 0..9 : DigitChar(d) = s[Len(s)])

\* readerFromReq on the request req, whose Content-Length header has the
\* value v, does what C19 says
ContentLengthAt(req, v) ==
    LET r == readerFromReq(req)
        digits == \A i \in 1..Len(v) : v[i] \in Digits
    IN  /\ ~digits => r.err = HTTPError(400, <<"b", "a", "d", " ", "C", "o", "n", "t", "e", "n", "t", "-", "L", "e", "n", "g", "t", "h", ".">>)
        /\ r.err = NoErr =>
              /\ digits /\ Len(v) > 0
              /\ req.method \notin {<<"G", "E", "T">>, <<"H", "E", "A", "D">>} =>
                    r.reader = Reader("length", DecimalValue(v))

\* C19: Content-Length parsing.  When a framed request has a Content-Length
\* header, readerFromReq accepts it only if the value of the header is made
\* of decimal digits only, the body length being the number they denote; a
\* value that holds any other character is refused with HTTPError 400 "bad
\* Content-Length.".
ContentLengthParsing ==
    \A k \in 1..Len(framed) :
        LET v == Lookup(framed[k].headers, <<"C", "o", "n", "t", "e", "n", "t", "-", "L", "e", "n", "g", "t", "h">>)
        IN  v.found => ContentLengthAt(framed[k], v.value)

\* the same, for the headers whose value fieldGet returns whole: a value
\* without a colon
ContentLengthParsingPlain ==
    \A k \in 1..Len(framed) :
        LET v == Lookup(framed[k].headers, <<"C", "o", "n", "t", "e", "n", "t", "-", "L", "e", "n", "g", "t", "h">>)
        IN  (v.found /\ \A i \in 1..Len(v.value) : v.value[i] # ":")
                => ContentLengthAt(framed[k], v.value)

\* readerFromReq on a GET or HEAD request does what C20 says; with
\* validOnly, only for a request whose Content-Length, if it has one, is
\* made of digits
BodyAllowedAt(req, validOnly) ==
    LET cl == Lookup(req.headers, <<"C", "o", "n", "t", "e", "n", "t", "-", "L", "e", "n", "g", "t", "h">>)
        te == Lookup(req.headers, <<"T", "r", "a", "n", "s", "f", "e", "r", "-", "E", "n", "c", "o", "d", "i", "n", "g">>)
        digits == Len(cl.value) > 0 /\ \A i \in 1..Len(cl.value) : cl.value[i] \in Digits
        declared == \/ cl.found /\ digits /\ DecimalValue(cl.value) > 0
                    \/ te.found /\ toLowerCase(te.value) = <<"c", "h", "u", "n", "k", "e", "d">>
        r == readerFromReq(req)
    IN  (req.method \in {<<"G", "E", "T">>, <<"H", "E", "A", "D">>} /\ (validOnly => (cl.found => digits))) =>
            IF declared
            THEN r.err = HTTPError(400, <<"H", "T", "T", "P", " ", "b", "o", "d", "y", " ", "n", "o", "t", " ", "a", "l", "l", "o", "w", "e", "d", ".">>)
            ELSE r.err = NoErr /\ r.reader = Reader("length", 0)

\* a read() of the body of a GET or HEAD request returns an empty buffer,
\* takes nothing from the buffer and calls no soRead
EmptyBodyRead ==
    (pc = "read" /\ CurReader = "req" /\ msg.method \in {<<"G", "E", "T">>, <<"H", "E", "A", "D">>}
        /\ pc' # pc) =>
        /\ pc' = "gotData" /\ rv' = <<>>
        /\ buf' = buf /\ reads' = reads /\ reader' = reader

BodyNotAllowedReached ==
    /\ pc = "catch" /\ exc = HTTPError(400, <<"H", "T", "T", "P", " ", "b", "o", "d", "y", " ", "n", "o", "t", " ", "a", "l", "l", "o", "w", "e", "d", ".">>)
    /\ framed[1].method = <<"G", "E", "T">>
    /\ framed[1].headers = <<<<"T", "r", "a", "n", "s", "f", "e", "r", "-", "E", "n", "c", "o", "d", "i", "n", "g", ":", " ", "c", "h", "u", "n", "k", "e", "d">>>>

BothFramingHeaders(req) ==
    LET cl == Lookup(req.headers, <<"C", "o", "n", "t", "e", "n", "t", "-", "L", "e", "n", "g", "t", "h">>)
        te == Lookup(req.headers, <<"T", "r", "a", "n", "s", "f", "e", "r", "-", "E", "n", "c", "o", "d", "i", "n", "g">>)
    IN  cl.found /\ te.found /\ toLowerCase(te.value) = <<"c", "h", "u", "n", "k", "e", "d">>

\* C21: conflicting framing headers.  A framed request that has both a
\* Content-Length header and Transfer-Encoding: chunked is refused with an
\* HTTPError of status 400: readerFromReq builds no body reader for it and
\* gives neither header precedence.
ConflictingFramingHeaders ==
    \A k \in 1..Len(framed) :
        BothFramingHeaders(framed[k]) =>
            LET r == readerFromReq(framed[k])
            IN  /\ r.err.kind = "HTTPError" /\ r.err.code = 400
                /\ r.reader = NoReader

HexDigits ==
    {"0", "1", "2", "3", "4", "5", "6", "7", "8", "9",
     "a", "b", "c", "d", "e", "f", "A", "B", "C", "D", "E", "F"}

\* a hexadecimal size string: one or more of the digits 0-9a-fA-F
IsSizeString(s) == Len(s) > 0 /\ \A i \in 1..Len(s) : s[i] \in HexDigits

HexDigitValue(c) ==
    CHOOSE d \in 0..15 :
        \/ <<c>> = NumToString(d, 16)
        \/ toLowerCase(<<c>>) = NumToString(d, 16)

\* the number a hexadecimal size string denotes
RECURSIVE HexValue(_)
HexValue(s) ==
    IF Len(s) = 0 THEN 0
    ELSE 16 * HexValue(SubSeq(s, 1, Len(s) - 1)) + HexDigitValue(s[Len(s)])

\* the chunked decoder is at a chunk-size line that is complete in the buffer
AtSizeLine ==
    /\ pc = "read" /\ CurReader = "req" /\ reqBody.kind = "chunks"
    /\ reqBody.gpc = "size"
    /\ IndexOf(Bytes(buf), CRLF, 0) >= 0

\* the step of the decoder at the chunk-size line s does what C22 says
SizeLineStep(s) ==
    IF IsSizeString(s)
    THEN /\ Bytes(buf') = SubSeq(Bytes(buf), Len(s) + 3, buf.length)
         /\ reqBody'.gpc = "data"
         /\ reqBody'.cremain = HexValue(s)
         /\ reqBody'.glast = (HexValue(s) = 0)
         /\ pc' = "read" /\ exc' = exc
    ELSE /\ pc' = "catch"
         /\ exc'.kind = "HTTPError" /\ exc'.code = 400
         /\ buf' = buf /\ reqBody' = reqBody

\* C22: chunk-size line.  When the bytes s before the first CR LF of the
\* unconsumed buffer are a hexadecimal size string, the decoder takes the
\* number they denote as the chunk length, consumes s and the CR LF, and
\* the chunk is the final one exactly when the number is 0; when s is not a
\* hexadecimal size string the decoder throws HTTPError 400 and decodes no
\* further.
ChunkSizeLine ==
    [][(AtSizeLine /\ <<pc, buf, reqBody>>' # <<pc, buf, reqBody>>) =>
            SizeLineStep(SubSeq(Bytes(buf), 1, IndexOf(Bytes(buf), CRLF, 0)))]_vars

\* the same, for the chunk-size lines that are not empty
ChunkSizeLineNotEmpty ==
    [][(AtSizeLine /\ IndexOf(Bytes(buf), CRLF, 0) > 0
            /\ <<pc, buf, reqBody>>' # <<pc, buf, reqBody>>) =>
            SizeLineStep(SubSeq(Bytes(buf), 1, IndexOf(Bytes(buf), CRLF, 0)))]_vars

\* a line that is no size string was refused
BadChunkSizeReached ==
    pc = "catch" /\ exc = HTTPError(400, <<"e", "x", "p", "e", "c", "t", " ", "h", "e", "x", " ", "d", "i", "g", "i", "t", "s">>)

\* the header lines of a response head as written to the socket
HeadLines(head) == SubSeq(splitLines(head), 2, Len(splitLines(head)) - 1)

\* the lines among them that are body-framing headers
FramingLines(lines) ==
    {i \in 1..Len(lines) :
        \E n \in {<<"c", "o", "n", "t", "e", "n", "t", "-", "l", "e", "n", "g", "t", "h">>, <<"t", "r", "a", "n", "s", "f", "e", "r", "-", "e", "n", "c", "o", "d", "i", "n", "g">>} :
            /\ Len(lines[i]) > Len(n)
            /\ toLowerCase(SubSeq(lines[i], 1, Len(n))) = n
            /\ lines[i][Len(n) + 1] = ":"}

\* C23: response framing header.  Every response head writeHTTPResp writes
\* holds exactly one body-framing header: Content-Length with the declared
\* length of the body reader when that length is at least 0, and
\* Transfer-Encoding: chunked when it is negative; every unit of the body
\* written after it is written as a chunk, the last-chunk included, exactly
\* in the second case, and as it is in the first.
ResponseFramingHeader ==
    [][/\ (pc # "awaitWrHead" /\ pc' = "awaitWrHead" /\ connErr = NoErr) =>
            LET lines == HeadLines(wrote')
                fr == FramingLines(lines)
            IN  /\ Cardinality(fr) = 1
                /\ \A i \in fr :
                      lines[i] = IF resp'.length >= 0
                                 THEN <<"C", "o", "n", "t", "e", "n", "t", "-", "L", "e", "n", "g", "t", "h", ":", " ">>
                                          \o NumToString(resp'.length, 10)
                                 ELSE <<"T", "r", "a", "n", "s", "f", "e", "r", "-", "E", "n", "c", "o", "d", "i", "n", "g", ":", " ", "c", "h", "u", "n", "k", "e", "d">>
       /\ (pc = "gotData" /\ caller = "write" /\ pc' # pc) =>
            IF resp.length < 0
            THEN /\ pc' = "awaitWrBody"
                 /\ connErr = NoErr =>
                       wrote' = NumToString(Len(rv), 16) \o CRLF \o rv \o CRLF
            ELSE IF Len(rv) > 0
            THEN pc' = "awaitWrBody" /\ (connErr = NoErr => wrote' = rv)
            ELSE pc' # "awaitWrBody" /\ wrote' = wrote]_vars

\* a response head with Transfer-Encoding: chunked has been written, and a
\* unit of two bytes of its body as the chunk 2 CRLF hi CRLF
ResponseFramingHeaderWitness ==
    /\ pc = "awaitWrBody" /\ resp.length < 0
    /\ resp.headers = <<<<"S", "e", "r", "v", "e", "r", ":", " ", "m", "y", "_", "f", "i", "r", "s", "t", "_", "h", "t", "t", "p", "_", "s", "e", "r", "v", "e", "r">>, <<"T", "r", "a", "n", "s", "f", "e", "r", "-", "E", "n", "c", "o", "d", "i", "n", "g", ":", " ", "c", "h", "u", "n", "k", "e", "d">>>>
    /\ wrote = <<"2", "\r", "\n", "h", "i", "\r", "\n">>

\* a response head with Content-Length has been written
ContentLengthHeadWritten ==
    /\ pc = "awaitWrHead" /\ resp.length = 13
    /\ wrote = <<"H", "T", "T", "P", "/", "1", ".", "1", " ", "2", "0", "0", " ", "O", "K", "\r", "\n", "S", "e", "r", "v", "e", "r", ":", " ", "m", "y", "_", "f", "i", "r", "s", "t", "_", "h", "t", "t", "p", "_", "s", "e", "r", "v", "e", "r", "\r", "\n", "C", "o", "n", "t", "e", "n", "t", "-", "L", "e", "n", "g", "t", "h", ":", " ", "1", "3", "\r", "\n", "\r", "\n">>

\* C24: end of stream while awaiting a request.  When the soRead of the
\* connection loop returns an empty buffer, serveClient returns without an
\* error and no response is written if the buffer holds no unconsumed byte,
\* and throws HTTPError 400 "Unexpected EOF." if the buffer holds the
\* unconsumed bytes of an incomplete head.
EndOfStreamAwaitingRequest ==
    [][(pc = "awaitHead" /\ pc' # pc /\ reads[Len(reads)] = Resolved(<<>>)) =>
            IF buf.length = 0
            THEN /\ pc' = "finally" /\ exc' = exc /\ mode' = "serve"
                 /\ out' = out /\ wrVars' = wrVars
            ELSE /\ pc' = "catch"
                 /\ exc' = HTTPError(400, <<"U", "n", "e", "x", "p", "e", "c", "t", "e", "d", " ", "E", "O", "F", ".">>)
                 /\ IndexOf(Bytes(buf), CRLFCRLF, 0) < 0]_vars

\* the stream ended within a head: the loop threw with the bytes of the
\* incomplete head in the buffer
EndOfStreamAwaitingRequestWitness ==
    /\ pc = "catch" /\ exc = HTTPError(400, <<"U", "n", "e", "x", "p", "e", "c", "t", "e", "d", " ", "E", "O", "F", ".">>)
    /\ buf.length > 0 /\ ended

\* the stream ended between two requests: the loop ended without an error
\* and without another response
CleanShutdownReached ==
    /\ pc = "closed" /\ exc = NoErr /\ mode = "serve" /\ ended
    /\ answered = 2 /\ Len(out) = 2 /\ buf.length = 0

(***************************************************************************)
(* The buffer under any caller                                             *)
(***************************************************************************)
\* the scripts whose streams are pushed
BufScripts == {1}

\* bufPush(buf, data) by any caller: data is the next bytes of the stream,
\* as for every caller in the server, or an empty buffer
BufPushAny ==
    LET s == TheStream
    IN  \E n \in 0..Min(MaxRead, Len(s) - pos) :
            /\ n = 0 \/ pos + n = Len(s) \/ pos + n \in Scripts[sid].cuts
            /\ buf' = bufPush(buf, SubSeq(s, pos + 1, pos + n))
            /\ pos' = pos + n
            /\ UNCHANGED <<sid, units, sockDead, connVars, wrVars, destroyed,
                           crashed, pc, mode, msg, reqBody, resp, caller, rv,
                           last, exc, histVars, runVars>>

\* bufPop(buf, len) by any caller, for a len in range: no byte, all bytes,
\* or the bytes up to one of the script's stream offsets
BufPopAny ==
    \E n \in 0..buf.length :
        /\ n = 0 \/ n = buf.length \/ popped + n \in Scripts[sid].cuts
        /\ buf' = bufPop(buf, n)
        /\ popped' = popped + n
        /\ UNCHANGED <<envVars, connVars, wrVars, destroyed, crashed, pc, mode,
                       msg, reqBody, resp, caller, rv, last, exc, histVars,
                       run, ref>>

NextBuf == BufPushAny \/ BufPopAny

InitBuf == Init /\ sid \in BufScripts

\* a DynBuf that starts empty, under any sequence of pushes and pops
SpecBuf == InitBuf /\ [][NextBuf]_vars

\* buf.data.length
Capacity(b) == Len(b.data)

RECURSIVE IsPowerOfTwo(_)
IsPowerOfTwo(n) == n = 1 \/ (n > 1 /\ n % 2 = 0 /\ IsPowerOfTwo(n \div 2))

\* C25: buffer capacity.  From the empty buffer, of capacity 0 and length 0,
\* after any pushes and pops in range the length is between 0 and the
\* capacity, and the capacity, once the storage has grown, is a power of two
\* that is at least 32; bufPop does not change the capacity and bufPush
\* does not decrease it.
BufferCapacity ==
    [][/\ 0 <= buf'.length /\ buf'.length <= Capacity(buf')
       /\ Capacity(buf') # 0 =>
             (Capacity(buf') >= 32 /\ IsPowerOfTwo(Capacity(buf')))
       /\ popped' # popped => Capacity(buf') = Capacity(buf)
       /\ pos' # pos => Capacity(buf') >= Capacity(buf)]_vars

\* the storage has grown twice, to 128 bytes, and bytes were popped since:
\* the capacity is as it was and fewer than 64 bytes are unconsumed
BufferCapacityWitness ==
    /\ Capacity(buf) = 128 /\ popped > 0
    /\ 0 < buf.length /\ buf.length < 64

\* C26: the buffer is a byte queue.  After any pushes and pops in range,
\* the first length bytes of the storage are all the bytes pushed without
\* the bytes popped from their front: a push adds its data after the
\* unconsumed bytes, also when the storage grows, a pop removes the first
\* bytes, and no consumed byte comes back.
BufferIsByteQueue ==
    /\ buf.length = pos - popped
    /\ Bytes(buf) = SubSeq(TheStream, popped + 1, pos)

\* bytes were popped, and bytes pushed later made the storage grow
BufferIsByteQueueWitness ==
    /\ popped = 10 /\ Capacity(buf) = 64 /\ buf.length = 40 /\ pos = 50

\* C27: at most one response head per request.  A response head is written
\* to the socket only when every response begun before it is complete: once
\* the status line of a response has been written, no second status line,
\* and no error response of newConn, is written before the body of that
\* response is complete.
OneResponseHead ==
    [][(pc # "awaitWrHead" /\ pc' = "awaitWrHead" /\ connErr = NoErr) =>
            Len(out) = answered]_vars

(***************************************************************************)
(* Termination                                                             *)
(***************************************************************************)
\* serveClient or newConn has a continuation to run: it is not awaiting, or
\* the promise it awaits (the last read, the last write) is settled
Runnable ==
    /\ Live
    /\ \/ pc \in {"loop", "read", "gotData", "catch", "finally"}
       \/ pc \in {"awaitHead", "awaitBody"} /\ Settled(reads)
       \/ pc \in {"awaitWrHead", "awaitWrBody"} /\ Settled(writes)

\* Runnable is the enabling condition of Server
RunnableIsEnabled == Runnable <=> ENABLED <<Server>>_vars

\* the event loop runs a continuation whose promise is settled (weak fairness
\* of Server, its enabling condition written as Runnable); the socket
\* delivers the data it has, the end of the stream, the completion of every
\* write and the 'error' event of a failure
Fairness ==
    /\ []<>(~Runnable) \/ []<><<Server>>_vars
    /\ WF_vars(OnData) /\ WF_vars(OnEnd)
    /\ WF_vars(OnWritten) /\ WF_vars(OnError)

\* the scripts of the connections followed to their end: every script but
\* those of the largest heads and of the bodies and header lines of any
\* units
LiveScripts == 1..Len(Scripts) \ {4, 11, 12, 15, 16}

InitLive == Init /\ sid \in LiveScripts

\* one connection of the HTTP server whose peer closes
SpecLive == InitLive /\ [][Next]_vars /\ Fairness

\* C28: termination on peer close.  If the end of the peer's stream is
\* delivered, every socket write completes and the body the handler produces
\* is finite, then from every state of the connection loop serveClient
\* returns or throws and the socket is destroyed; no read is pending after
\* the end of the stream.
TerminationOnPeerClose ==
    /\ [](ended => PendingReads = {})
    /\ (pc # "closed") ~> (pc = "closed" /\ destroyed)

\* a body read to the end of the stream was echoed, the drain loop read
\* after the end of the stream, and the connection is closed
TerminationOnPeerCloseWitness ==
    /\ pc = "closed" /\ destroyed /\ ended
    /\ reqBody.kind = "eof" /\ answered = 1 /\ exc = NoErr
====
